---- MODULE Spec2Model ----
(***************************************************************************)
(* A model of the EPUB import of obsidian-importer: the EpubBook           *)
(* orchestrator (manifest, classification, link reconnection, write loop,  *)
(* progress reports, cancellation), the page assets with their documents   *)
(* and anchor registries, and the link-target marking transform.  Three   *)
(* operations are also run on their own, each under a specification of     *)
(* its own: the filename registry (SpecRegistry), the title-to-basename    *)
(* conversion (SpecBasename) and the code-block injection (SpecCodeBlock). *)
(*                                                                         *)
(* The JavaScript runs on one event loop: every action below is one        *)
(* synchronous continuation of the import (from the resumption of an       *)
(* await up to the next await), or one step of the environment (the vault  *)
(* settling a write, the user requesting cancellation).                    *)
(***************************************************************************)
EXTENDS Integers, Sequences, FiniteSets, TLC

\* ------------------------------------------------------------------------
\* Bounds of the model
\* ------------------------------------------------------------------------

\* the largest number of entries of an archive
MaxEntries == 3

\* ------------------------------------------------------------------------
\* Generic helpers
\* ------------------------------------------------------------------------

Range(s) == {s[i] : i \in 1..Len(s)}

\* all sequences without repetition over the set S of at most n elements
RECURSIVE InjSeqs(_, _)
InjSeqs(S, n) ==
    IF n = 0 THEN {<<>>}
    ELSE LET shorter == InjSeqs(S, n - 1)
         IN  shorter \cup
             UNION {{Append(s, x) : x \in S \ Range(s)} :
                        s \in {t \in shorter : Len(t) = n - 1}}

\* the sequence s with x inserted behind position i
InsertAt(s, i, x) == SubSeq(s, 1, i) \o <<x>> \o SubSeq(s, i + 1, Len(s))

\* the first position of x in s, 0 when absent
IndexOf(s, x) ==
    IF \A i \in 1..Len(s) : s[i] # x THEN 0
    ELSE CHOOSE i \in 1..Len(s) : s[i] = x /\ \A j \in 1..(i - 1) : s[j] # x

\* ------------------------------------------------------------------------
\* Strings are sequences of one-character strings.  The Unicode look-alikes
\* of the filename table are written as their code points ("U+2753").
\* ------------------------------------------------------------------------

Letters ==
    {"a", "b", "c", "d", "e", "f", "g", "h", "i", "j", "k", "l", "m", "n",
     "o", "p", "q", "r", "s", "t", "u", "v", "w", "x", "y", "z",
     "A", "B", "C", "T", "Z"}
Digits == {"0", "1", "2", "3", "4", "5", "6", "7", "8", "9"}
Whitespace == {" ", "\t"}

\* JavaScript's \w
IsWordChar(c) == c \in Letters \cup Digits \cup {"_"}

\* String.prototype.replace(/c/g, to) for a one-character pattern
ReplaceAll(s, from, to) == [i \in 1..Len(s) |-> IF s[i] = from THEN to ELSE s[i]]

\* String.prototype.trim
RECURSIVE TrimLeft(_)
TrimLeft(s) ==
    IF s # <<>> /\ Head(s) \in Whitespace THEN TrimLeft(Tail(s)) ELSE s
RECURSIVE TrimRight(_)
TrimRight(s) ==
    IF s # <<>> /\ s[Len(s)] \in Whitespace THEN TrimRight(SubSeq(s, 1, Len(s) - 1)) ELSE s
Trim(s) == TrimRight(TrimLeft(s))

\* the table of filename transformations, in the order they are applied
FILENAME_TRANSFORMATIONS ==
    << <<"?", "U+2753">>, <<":", "U+A789">>, <<"\"", "'">>,
       <<"<", "U+FF1C">>, <<">", "U+FF1E">>, <<"|", "U+2223">>,
       <<"\\", "/">>, <<"/", "U+2571">>, <<"[", "U+27E6">>,
       <<"]", "U+27E7">>, <<"#", "U+FF03">>, <<"^", "U+2303">>,
       <<"&", "U+FF06">>, <<"*", "U+2731">> >>

\* the transformations lo..hi of the table applied to s one after the
\* other, each to the result of the one before
RECURSIVE ApplyTransformations(_, _, _, _)
ApplyTransformations(s, table, lo, hi) ==
    IF lo > hi THEN s
    ELSE IF lo = hi THEN ReplaceAll(s, table[lo][1], table[lo][2])
    ELSE CHOOSE r \in {ApplyTransformations(half, table, ((lo + hi) \div 2) + 1, hi) :
                          half \in {ApplyTransformations(s, table, lo, (lo + hi) \div 2)}} :
             TRUE

\* the table applied from its last row to its first
titleToBasenameBackwards(title) ==
    Trim(ApplyTransformations(title,
                              [i \in 1..Len(FILENAME_TRANSFORMATIONS) |->
                                  FILENAME_TRANSFORMATIONS[Len(FILENAME_TRANSFORMATIONS) + 1 - i]],
                              1, Len(FILENAME_TRANSFORMATIONS)))

\* titleToBasename: every transformation in turn, then trim
titleToBasename(title) ==
    Trim(ApplyTransformations(title, FILENAME_TRANSFORMATIONS, 1,
                              Len(FILENAME_TRANSFORMATIONS)))

\* ------------------------------------------------------------------------
\* HTML documents.  A document is [el, kids]: el[n] is element n (its tag, id
\* and class attributes, its parent, its href when it is a hyperlink, and the
\* marker attribute of a link-target marker); kids[n] is the sequence of the
\* element children of n in document order.  Element 0 is <body>, -1 is null.
\* Text nodes do not matter to any operation modelled here.
\* ------------------------------------------------------------------------

NoNode == -1
Body == 0
NoHref == [kind |-> "none"]

Tag(doc, n) == IF n = Body THEN "body" ELSE doc.el[n].tag
ParentElement(doc, n) == IF n = Body THEN NoNode ELSE doc.el[n].parent

\* Element.nextElementSibling
NextElementSibling(doc, n) ==
    LET sibs == doc.kids[ParentElement(doc, n)]
        i == IndexOf(sibs, n)
    IN  IF i < Len(sibs) THEN sibs[i + 1] ELSE NoNode

\* Element.lastElementChild
LastElementChild(doc, n) ==
    IF doc.kids[n] = <<>> THEN NoNode ELSE doc.kids[n][Len(doc.kids[n])]

\* Element.getAttribute('marker'), "" standing for a missing attribute
MarkerOf(doc, n) == IF n = NoNode \/ n = Body THEN <<>> ELSE doc.el[n].marker

\* the place of an element in its document: the positions among the
\* siblings on the way down from <body>
RECURSIVE PathTo(_, _)
PathTo(doc, n) ==
    IF n = Body THEN <<>>
    ELSE Append(PathTo(doc, doc.el[n].parent), IndexOf(doc.kids[doc.el[n].parent], n))

\* document order of two distinct places: an ancestor comes before its
\* descendants, an earlier sibling's subtree before a later sibling's
Precedes(p, q) ==
    \E i \in 1..Len(q) :
        /\ Len(p) >= i - 1
        /\ SubSeq(p, 1, i - 1) = SubSeq(q, 1, i - 1)
        /\ (Len(p) = i - 1 \/ p[i] < q[i])

\* the elements below the place p
Below(doc, p) ==
    {m \in 1..Len(doc.el) :
        LET q == PathTo(doc, m)
        IN  Len(q) > Len(p) /\ SubSeq(q, 1, Len(p)) = p}

\* the elements below n (n itself excluded)
Descendants(doc, n) == Below(doc, PathTo(doc, n))

\* the first of the elements S, whose places are path, in document order
First(S, path) == CHOOSE n \in S : \A m \in S \ {n} : Precedes(path[n], path[m])

\* the first element in document order of a set of elements, NoNode when
\* the set is empty
FirstIn(doc, S) ==
    IF S = {} THEN NoNode ELSE First(S, [n \in S |-> PathTo(doc, n)])

\* the elements S, of which before[n] come before n, as a sequence
Ranked(S, before) == [i \in 1..Cardinality(S) |-> CHOOSE n \in S : before[n] = i - 1]

\* how many of the elements S, whose places are path, come before each
Before(S, path) ==
    [n \in S |-> Cardinality({m \in S \ {n} : Precedes(path[m], path[n])})]

\* a set of elements as the sequence in document order
InDocumentOrder(doc, S) == Ranked(S, Before(S, [n \in S |-> PathTo(doc, n)]))

\* Node.appendChild / insertAfter of a new element: the new element gets
\* the next free number
AppendChild(doc, parent, e) ==
    LET n == Len(doc.el) + 1
    IN  [el |-> Append(doc.el, [e EXCEPT !.parent = parent]),
         kids |-> [k \in 0..n |->
                      IF k = n THEN <<>>
                      ELSE IF k = parent THEN Append(doc.kids[k], n)
                      ELSE doc.kids[k]]]

InsertAfter(doc, parent, e, ref) ==
    LET n == Len(doc.el) + 1
    IN  [el |-> Append(doc.el, [e EXCEPT !.parent = parent]),
         kids |-> [k \in 0..n |->
                      IF k = n THEN <<>>
                      ELSE IF k = parent
                           THEN InsertAt(doc.kids[k], IndexOf(doc.kids[k], ref), n)
                      ELSE doc.kids[k]]]

\* ------------------------------------------------------------------------
\* document.querySelector("#" + targetID) and its fallback
\* ------------------------------------------------------------------------

IsNameChar(c) == IsWordChar(c) \/ c = "-"
IsNameStart(c) == c \in Letters \/ c = "_"

\* the longest prefix of s made of name characters
NamePrefix(s) ==
    SubSeq(s, 1, CHOOSE k \in 0..Len(s) :
                     /\ \A j \in 1..k : IsNameChar(s[j])
                     /\ (k < Len(s) => ~IsNameChar(s[k + 1])))

\* is s a CSS identifier
IsIdent(s) ==
    /\ s # <<>>
    /\ \A i \in 1..Len(s) : IsNameChar(s[i])
    /\ \/ IsNameStart(s[1])
       \/ s[1] = "-" /\ Len(s) > 1 /\ (IsNameStart(s[2]) \/ s[2] = "-")

\* the class selectors that follow the id of a compound selector: is the
\* rest a sequence of ".ident" (a ':' starts a pseudo-class, which no id of
\* this model names, so the selector is invalid), and the class names
RECURSIVE ValidClassSelectors(_)
ValidClassSelectors(s) ==
    \/ s = <<>>
    \/ /\ Head(s) = "."
       /\ LET name == NamePrefix(Tail(s))
          IN  /\ IsIdent(name)
              /\ ValidClassSelectors(SubSeq(s, Len(name) + 2, Len(s)))

RECURSIVE ClassSelectors(_)
ClassSelectors(s) ==
    IF s = <<>> THEN <<>>
    ELSE LET name == NamePrefix(Tail(s))
         IN  <<name>> \o ClassSelectors(SubSeq(s, Len(name) + 2, Len(s)))

\* "#" + targetID parsed as a selector: [ok, id, classes]; ok is FALSE when
\* querySelector throws a SyntaxError
ParseIdSelector(targetID) ==
    LET name == NamePrefix(targetID)
        rest == SubSeq(targetID, Len(name) + 1, Len(targetID))
    IN  IF IsIdent(name) /\ ValidClassSelectors(rest)
        THEN [ok |-> TRUE, id |-> name, classes |-> ClassSelectors(rest)]
        ELSE [ok |-> FALSE, id |-> <<>>, classes |-> <<>>]

\* the element fragmentIdentifier works on: the canonical selector, and
\* the attribute selector [id="..."] when the canonical one throws
Matching(doc, targetID, sel) ==
    IF sel.ok
    THEN {n \in 1..Len(doc.el) :
            /\ doc.el[n].id = sel.id
            /\ \A i \in 1..Len(sel.classes) : doc.el[n].cls = sel.classes[i]}
    ELSE {n \in 1..Len(doc.el) : doc.el[n].id # <<>> /\ doc.el[n].id = targetID}
QuerySelectorId(doc, targetID) ==
    FirstIn(doc, Matching(doc, targetID, ParseIdSelector(targetID)))

\* ------------------------------------------------------------------------
\* Link-target marking (ebook-transformers)
\* ------------------------------------------------------------------------

\* MARK_STRATEGIES: tag name to marking strategy, "none" for other tags
MARK_STRATEGIES(tag) ==
    IF tag \in {"p", "h1", "h2", "h3", "h4", "h5", "h6", "li", "figcaption",
                "caption", "td", "th", "dt", "dd", "header", "footer"}
    THEN "Append"
    ELSE IF tag \in {"figure", "table", "pre", "blockquote"} THEN "InsertAfter"
    ELSE IF tag \in {"div", "ul", "ol", "dl", "section", "article", "aside"}
    THEN "Descend"
    ELSE "none"

\* TARGETABLE_ELEMENTS: the tags whose strategy is not Descend
TARGETABLE_ELEMENTS(tag) == MARK_STRATEGIES(tag) \in {"Append", "InsertAfter"}

\* the id attempt: element.getAttribute('id')?.replace(/[_\.:]+/g, '-')
RECURSIVE SanitizeId(_)
SanitizeId(s) ==
    IF s = <<>> THEN <<>>
    ELSE IF Head(s) \in {"_", ".", ":"}
         THEN IF Len(s) > 1 /\ s[2] \in {"_", ".", ":"}
              THEN SanitizeId(Tail(s))
              ELSE <<"-">> \o SanitizeId(Tail(s))
    ELSE <<Head(s)>> \o SanitizeId(Tail(s))

\* /^[a-zA-Z][\w\-.]*$/.test(id)
IsValidAnchorId(s) ==
    /\ s # <<>>
    /\ s[1] \in Letters
    /\ \A i \in 2..Len(s) : IsWordChar(s[i]) \/ s[i] \in {"-", "."}

\* the nearest element, from e upwards, that has a strategy
RECURSIVE StrategicAncestor(_, _)
StrategicAncestor(doc, e) ==
    IF e = NoNode THEN NoNode
    ELSE IF MARK_STRATEGIES(Tag(doc, e)) # "none" THEN e
    ELSE StrategicAncestor(doc, ParentElement(doc, e))

\* the block element the marker goes to and the strategy used on it:
\* [target, strategy], target = NoNode when nothing can carry a marker
DescendTo(doc, anc, targetable) ==
    IF targetable # NoNode
    THEN [target |-> targetable, strategy |-> MARK_STRATEGIES(Tag(doc, targetable))]
    ELSE [target |-> anc, strategy |-> "InsertAfter"]
TargetOf(doc, anc) ==
    IF anc = NoNode THEN [target |-> NoNode, strategy |-> "none"]
    ELSE IF MARK_STRATEGIES(Tag(doc, anc)) = "Descend"
    THEN DescendTo(doc, anc,
                   FirstIn(doc, {n \in Descendants(doc, anc) :
                                    TARGETABLE_ELEMENTS(doc.el[n].tag)}))
    ELSE [target |-> anc, strategy |-> MARK_STRATEGIES(Tag(doc, anc))]
MarkTarget(doc, element) == TargetOf(doc, StrategicAncestor(doc, element))

\* the marker already on the block, "" when there is none
AliasIDOfLastChild(doc, mt) == MarkerOf(doc, LastElementChild(doc, mt.target))
AliasID(doc, mt) ==
    IF mt.strategy = "InsertAfter"
    THEN MarkerOf(doc, NextElementSibling(doc, mt.target))
    ELSE MarkerOf(doc, LastElementChild(doc, mt.target))

MarkerElement(id) ==
    [tag |-> "code", id |-> <<>>, cls |-> <<>>, parent |-> NoNode,
     href |-> NoHref, text |-> <<>>, marker |-> id]

\* the id of a new marker: the sanitized id of the element, or a made-up one
MarkerId(sanitized, random) == IF IsValidAnchorId(sanitized) THEN sanitized ELSE random

\* the marker of the block is reused, or a new marker with the id is
\* attached to the block mt the way its strategy says
AttachMarker(doc, mt, id) ==
    IF mt.target = NoNode THEN [doc |-> doc, id |-> <<>>]
    ELSE IF AliasID(doc, mt) # <<>> THEN [doc |-> doc, id |-> AliasID(doc, mt)]
    ELSE IF mt.strategy = "Append"
    THEN [doc |-> AppendChild(doc, mt.target, MarkerElement(id)), id |-> id]
    ELSE IF ParentElement(doc, mt.target) = NoNode THEN [doc |-> doc, id |-> <<>>]
    ELSE [doc |-> InsertAfter(doc, ParentElement(doc, mt.target), MarkerElement(id),
                              mt.target),
          id |-> id]

\* markElementAsLinkTarget(element): [doc, id], id = "" for undefined.
\* random is the string Math.random() yields if it is asked.
markElementAsLinkTarget(doc, element, random) ==
    AttachMarker(doc, MarkTarget(doc, element),
                 MarkerId(SanitizeId(doc.el[element].id), random))

\* ------------------------------------------------------------------------
\* Assets (epub-assets).  An asset is a record
\*   kind          "page", "toc" (the NCX TocAsset) or "media"
\*   key           the source path relative to the book (the asset map key)
\*   entry         the archive entry it was made from
\*   assetFolderPath, basename, extension
\*   pageTitle     "" for undefined
\*   toc           the page is the navigation page
\*   page          the parsed document of a page
\*   linkTargetMap the anchor registry: source id -> anchor id
\*   navList       the flattened navigation list of a TocAsset
\* The asset map is the sequence of the assets in insertion order.
\* ------------------------------------------------------------------------

EmptyDoc == [el |-> <<>>, kids |-> [k \in {0} |-> <<>>]]
EmptyMap == [k \in {} |-> <<>>]

\* the file name tokens ".md" and "." + extension close a file name
TocFilename ==
    <<"U+00A7", " ", "T", "i", "t", "l", "e", " ", "P", "a", "g", "e", ".md">>

\* ImportableAsset.outputFilename
outputFilename(asset) ==
    IF asset.kind = "page"
    THEN titleToBasename(IF asset.pageTitle # <<>> THEN asset.pageTitle
                         ELSE asset.basename) \o <<".md">>
    ELSE IF asset.kind = "toc" THEN TocFilename
    ELSE asset.basename \o <<asset.extension>>

\* ImportableAsset.outputPath: makeAssetPath(outputFilename)
outputPath(asset) == [folder |-> asset.assetFolderPath, file |-> outputFilename(asset)]

\* EpubBook.getAsset: the position of the asset in the map, 0 for undefined
RECURSIVE getAsset(_, _)
getAsset(assets, path) ==
    IF assets = <<>> THEN 0
    ELSE IF assets[Len(assets)].key = path THEN Len(assets)
    ELSE getAsset(SubSeq(assets, 1, Len(assets) - 1), path)

\* ImportableAsset.pathFromBook
pathFromBook(asset, relPath) == asset.assetFolderPath \o relPath

\* the length of the longest common prefix of two folder paths
CommonPrefixOfOne(a, b) == IF a # <<>> /\ b # <<>> /\ Head(a) = Head(b) THEN 1 ELSE 0
RECURSIVE CommonPrefix(_, _)
CommonPrefix(a, b) ==
    IF a # <<>> /\ b # <<>> /\ Head(a) = Head(b)
    THEN 1 + CommonPrefix(Tail(a), Tail(b)) ELSE 0

\* ImportableAsset.relativePathTo: "../" ups times, then the folders, then
\* the file name
relativePathTo(this, targetAsset) ==
    LET c == CommonPrefix(this.assetFolderPath, targetAsset.assetFolderPath)
    IN  [ups |-> Len(this.assetFolderPath) - c,
         folder |-> SubSeq(targetAsset.assetFolderPath, c + 1,
                           Len(targetAsset.assetFolderPath)),
         file |-> outputFilename(targetAsset)]

\* the id of a request that names no id: targetID is undefined and the
\* selector reads "#undefined"
Undefined == <<"u", "n", "d", "e", "f", "i", "n", "e", "d">>

\* the k-th value of Math.random() in base 24, given its leading digits
RandomDigits == <<"0", "1", "2", "3", "4", "5", "6", "7", "8", "9">>
RandomId(random, k) == random \o <<RandomDigits[(k % 10) + 1]>>

\* PageAsset.fragmentIdentifier(targetID): [asset, frag, drawn]; frag is the
\* anchor id behind "#^", "" when the result is the empty string; drawn
\* counts the calls, each of which has its own random value
RememberOnlyLast(asset, targetID, marked, drawn) ==
    IF marked.id = <<>>
    THEN [asset |-> [asset EXCEPT !.page = marked.doc], frag |-> <<>>,
          drawn |-> drawn + 1]
    ELSE [asset |-> [asset EXCEPT
                        !.page = marked.doc,
                        !.linkTargetMap = [k \in {targetID} |-> marked.id]],
          frag |-> marked.id, drawn |-> drawn + 1]
Remember(asset, targetID, marked, drawn) ==
    IF marked.id = <<>>
    THEN [asset |-> [asset EXCEPT !.page = marked.doc], frag |-> <<>>,
          drawn |-> drawn + 1]
    ELSE [asset |-> [asset EXCEPT
                        !.page = marked.doc,
                        !.linkTargetMap =
                            [k \in DOMAIN asset.linkTargetMap \cup {targetID} |->
                                IF k = targetID THEN marked.id
                                ELSE asset.linkTargetMap[k]]],
          frag |-> marked.id, drawn |-> drawn + 1]
MarkFound(asset, targetID, e, random, drawn) ==
    IF e = NoNode
    THEN [asset |-> asset, frag |-> <<>>, drawn |-> drawn]
    ELSE Remember(asset, targetID,
                  markElementAsLinkTarget(asset.page, e, RandomId(random, drawn)), drawn)
fragmentIdentifier(asset, targetID, random, drawn) ==
    IF targetID \in DOMAIN asset.linkTargetMap
    THEN [asset |-> asset, frag |-> asset.linkTargetMap[targetID], drawn |-> drawn]
    ELSE MarkFound(asset, targetID, QuerySelectorId(asset.page, targetID), random, drawn)

\* link.replace(/\s/g, "%20")
EncodeSpaces(s) == [i \in 1..Len(s) |-> IF s[i] \in Whitespace THEN "%20" ELSE s[i]]

\* txt.replace(/([\]\[]+)/g, "\\$1")
RECURSIVE EscapeBrackets(_, _)
EscapeBrackets(s, inRun) ==
    IF s = <<>> THEN <<>>
    ELSE IF Head(s) \in {"[", "]"}
         THEN (IF inRun THEN <<>> ELSE <<"\\">>) \o <<Head(s)>> \o EscapeBrackets(Tail(s), TRUE)
    ELSE <<Head(s)>> \o EscapeBrackets(Tail(s), FALSE)

\* a hyperlink as written in the book, and as rewritten by reconnectLinks
SourceHref(path, hashed, id) ==
    [kind |-> "source", external |-> FALSE, ups |-> 0, path |-> path,
     file |-> <<>>, hashed |-> hashed, id |-> id]
ExternalHref ==
    [kind |-> "source", external |-> TRUE, ups |-> 0, path |-> <<"http://host">>,
     file |-> <<>>, hashed |-> FALSE, id |-> <<>>]
OutputHref(rel, frag) ==
    [kind |-> "output", external |-> FALSE, ups |-> rel.ups, path |-> rel.folder,
     file |-> EncodeSpaces(rel.file), hashed |-> frag # <<>>, id |-> EncodeSpaces(frag)]

\* the hyperlinks a[href] of a document, in document order
Hyperlinks(doc) ==
    InDocumentOrder(doc, {n \in Descendants(doc, Body) :
                             doc.el[n].tag = "a" /\ doc.el[n].href.kind # "none"})

\* one iteration of the forEach of reconnectLinks: the hyperlink a of the
\* page at position this; st = [assets, drawn]
SetHref(marked, this, a, target, frag, drawn) ==
    [assets |-> [marked EXCEPT
                    ![this].page.el[a].href =
                        OutputHref(relativePathTo(marked[this], marked[target]), frag),
                    ![this].page.el[a].text = EscapeBrackets(@, FALSE)],
     drawn |-> drawn]
LinkTo(st, this, a, target, fr) ==
    SetHref([st.assets EXCEPT ![target] = fr.asset], this, a, target, fr.frag, fr.drawn)
ReconnectToAnyAsset(st, this, a, href, target, random) ==
    IF target = 0 THEN st
    ELSE IF st.assets[target].kind # "page"
    THEN SetHref(st.assets, this, a, target, <<>>, st.drawn)
    ELSE LinkTo(st, this, a, target,
                fragmentIdentifier(st.assets[target],
                                   IF href.hashed THEN href.id ELSE Undefined,
                                   random, st.drawn))
ReconnectTo(st, this, a, href, target, random) ==
    IF target = 0 THEN st
    ELSE IF st.assets[target].kind # "page" THEN st
    ELSE LinkTo(st, this, a, target,
                fragmentIdentifier(st.assets[target],
                                   IF href.hashed THEN href.id ELSE Undefined,
                                   random, st.drawn))
ReconnectLink(st, this, a, random) ==
    LET href == st.assets[this].page.el[a].href
    IN  IF href.kind # "source" \/ href.external THEN st
        ELSE ReconnectTo(st, this, a, href,
                         IF href.path # <<>>
                         THEN getAsset(st.assets, pathFromBook(st.assets[this], href.path))
                         ELSE this,
                         random)

\* the forEach of reconnectLinks over the hyperlinks as[lo..hi], in this
\* order: each hyperlink is rewritten before the next one is looked at
RECURSIVE ReconnectAll(_, _, _, _, _, _)
ReconnectAll(st, this, as, lo, hi, random) ==
    IF lo > hi THEN st
    ELSE IF lo = hi THEN ReconnectLink(st, this, as[lo], random)
    ELSE CHOOSE after \in
             {ReconnectAll(half, this, as, ((lo + hi) \div 2) + 1, hi, random) :
                  half \in {ReconnectAll(st, this, as, lo, (lo + hi) \div 2, random)}} :
             TRUE

\* PageAsset.reconnectLinks
LinksFrom(st, this, as, random) == ReconnectAll(st, this, as, 1, Len(as), random)
reconnectLinks(st, this, random) ==
    LinksFrom(st, this, Hyperlinks(st.assets[this].page), random)

\* ------------------------------------------------------------------------
\* The NCX table of contents.  A navigation node is a child element of the
\* navMap or a nested navPoint:
\*   [navPoint, label, src, path, hashed, id, children]
\* navPoint tells a <navPoint> from another element (navInfo, navLabel),
\* label is the text of navLabel ("" when missing), src tells whether the
\* node has a content element with a src attribute.
\* ------------------------------------------------------------------------

Unknown == <<"u", "n", "k", "n", "o", "w", "n">>

\* the asset of a navigation point gets the label as its title when it
\* has none
TitledByEveryLabel(asset, label) ==
    IF label # <<>> THEN [asset EXCEPT !.pageTitle = label] ELSE asset
Titled(asset, label) ==
    IF asset.pageTitle = <<>> /\ label # <<>> THEN [asset EXCEPT !.pageTitle = label]
    ELSE asset

\* the link text of a navigation point
LinkText(navpoint) == IF navpoint.label # <<>> THEN navpoint.label ELSE Unknown

\* the link to a page: asset.outputPath + asset.fragmentIdentifier(id)
PageLink(st, level, navpoint, asset, fr) ==
    [st |-> [assets |-> [st.assets EXCEPT ![asset] = fr.asset], drawn |-> fr.drawn],
     link |-> [level |-> level, linkText |-> LinkText(navpoint), target |-> "page",
               folder |-> fr.asset.assetFolderPath,
               file |-> outputFilename(fr.asset), frag |-> fr.frag]]

\* the link to the asset book.getAsset(srcPath) gave
AssetLink(st, level, navpoint, asset, random) ==
    IF asset = 0
    THEN [st |-> st,
          link |-> [level |-> level, linkText |-> LinkText(navpoint), target |-> "source",
                    folder |-> navpoint.path, file |-> <<>>, frag |-> <<>>]]
    ELSE IF st.assets[asset].kind # "page"
    THEN [st |-> st,
          link |-> [level |-> level, linkText |-> LinkText(navpoint), target |-> "asset",
                    folder |-> st.assets[asset].assetFolderPath,
                    file |-> outputFilename(st.assets[asset]), frag |-> <<>>]]
    ELSE PageLink(st, level, navpoint, asset,
                  fragmentIdentifier(Titled(st.assets[asset], navpoint.label),
                                     IF navpoint.hashed THEN navpoint.id ELSE Undefined,
                                     random, st.drawn))

\* new NavLink(level, navpoint, book): [st, link]; st = [assets, drawn]
NavLink(st, level, navpoint, random) ==
    IF ~navpoint.src
    THEN [st |-> st,
          link |-> [level |-> level, linkText |-> LinkText(navpoint), target |-> "none",
                    folder |-> <<>>, file |-> <<>>, frag |-> <<>>]]
    ELSE AssetLink(st, level, navpoint, getAsset(st.assets, navpoint.path), random)

\* :scope > navPoint
IsNavPoint(node) == node.navPoint

\* this.navList.push(navlink)
Push(acc, made) == [st |-> made.st, navList |-> Append(acc.navList, made.link)]

\* TocAsset.parseNavPoint over a sequence of nodes at one level;
\* acc = [st, navList]
RECURSIVE parseNavPoints(_, _, _, _)
parseNavPoints(acc, level, nodes, random) ==
    IF nodes = <<>> THEN acc
    ELSE CHOOSE after \in
             {parseNavPoints(
                  parseNavPoints(pushed, level + 1,
                                 SelectSeq(Head(nodes).children, IsNavPoint),
                                 random),
                  level, Tail(nodes), random) :
                     pushed \in {Push(acc, NavLink(acc.st, level, Head(nodes), random))}} :
             TRUE

\* the navigation list as the TocAsset keeps it
WithNavList(done, toc) ==
    [assets |-> [done.st.assets EXCEPT ![toc].navList = done.navList],
     drawn |-> done.st.drawn]

\* TocAsset.parse: every child of the navMap is parsed at level 0
TocParse(st, toc, navMap, random) ==
    WithNavList(parseNavPoints([st |-> st, navList |-> <<>>], 0, navMap, random), toc)

\* ------------------------------------------------------------------------
\* The books the model imports: a pool of archive entries.  An entry is
\*   filepath   its path in the archive, the file name last
\*   name       the file name
\*   basename, extension   ("" for no extension, else "." + extension)
\*   title      the text of the <title> element of a page
\*   doc        the document of a page
\*   navMap     the children of the <navMap> of an NCX file
\*   manifest   the content of an .opf file: the media-type of every item,
\*              the title of the book and the path of the navigation page
\*              ("" when the book names none)
\* ------------------------------------------------------------------------

El(tag, id, cls, parent) ==
    [tag |-> tag, id |-> id, cls |-> cls, parent |-> parent,
     href |-> NoHref, text |-> <<>>, marker |-> <<>>]
Anchor(parent, href, text) ==
    [tag |-> "a", id |-> <<>>, cls |-> <<>>, parent |-> parent,
     href |-> href, text |-> text, marker |-> <<>>]

\* the children of n among the elements els, in the order of els
ChildrenOf(els, n) ==
    LET K == {m \in 1..Len(els) : els[m].parent = n}
    IN  [i \in 1..Cardinality(K) |->
            CHOOSE m \in K : Cardinality({k \in K : k < m}) = i - 1]
MkDoc(els) == [el |-> els, kids |-> [n \in 0..Len(els) |-> ChildrenOf(els, n)]]

IdS2 == <<"s", "2">>
IdAB == <<"a", "_", "b">>
IdAAB == <<"a", "_", "_", "b">>
IdCD == <<"c", ".", "d">>
IdEF == <<"e", ".", "f">>
IdZZ == <<"z", "z">>
IdX == <<"x">>
IdY1 == <<"y", "1">>
IdY2 == <<"y", "2">>
Id1X == <<"1", "x">>
IdLoc == <<"l", "o", "c">>

PathA == <<"Text", "a.html">>
PathB == <<"Text", "b.html">>
PathC == <<"Text", "c.html">>
PathD == <<"Text", "d.html">>
PathNcx == <<"toc.ncx">>
PathPng == <<"Text", "x.png">>
PathCss == <<"s.css">>

\* Text/a.html: one paragraph holding the hyperlinks of the book
DocA ==
    MkDoc(<< El("p", <<>>, <<>>, Body),
             Anchor(1, SourceHref(<<"b.html">>, TRUE, IdS2), <<"s">>),
             Anchor(1, SourceHref(<<"b.html">>, TRUE, IdAB), <<"[", "1", "]">>),
             Anchor(1, SourceHref(<<"b.html">>, TRUE, IdAAB), <<>>),
             Anchor(1, SourceHref(<<"b.html">>, TRUE, IdCD), <<>>),
             Anchor(1, SourceHref(<<"b.html">>, TRUE, IdEF), <<>>),
             Anchor(1, SourceHref(<<"b.html">>, TRUE, IdZZ), <<"z">>),
             Anchor(1, SourceHref(<<"b.html">>, TRUE, IdX), <<>>),
             Anchor(1, SourceHref(<<"b.html">>, TRUE, IdY1), <<>>),
             Anchor(1, SourceHref(<<"b.html">>, TRUE, IdY2), <<>>),
             Anchor(1, SourceHref(<<"b.html">>, TRUE, Id1X), <<>>),
             Anchor(1, ExternalHref, <<"[", "e", "]">>),
             Anchor(1, SourceHref(<<"nope.html">>, TRUE, IdS2), <<"[", "n", "]">>),
             Anchor(1, SourceHref(<<"..", "Img", "x.png">>, FALSE, <<>>), <<>>),
             Anchor(1, SourceHref(<<"b.html">>, FALSE, <<>>), <<>>),
             Anchor(1, SourceHref(<<"x.png">>, FALSE, <<>>), <<"[", "i", "]">>),
             Anchor(1, SourceHref(<<"a.html">>, FALSE, <<>>), <<"[", "a", "]">>) >>)

\* Text/b.html: the targets, and a hyperlink to the heading of the page
DocB ==
    MkDoc(<< El("h2", IdS2, <<>>, Body),
             El("p", IdAB, <<>>, Body),
             El("p", IdAAB, <<>>, Body),
             El("p", <<"c">>, <<"d">>, Body),
             El("p", IdEF, <<>>, Body),
             El("span", IdX, <<>>, Body),
             El("p", <<>>, <<>>, Body),
             El("span", IdY1, <<>>, 7),
             El("span", IdY2, <<>>, 7),
             El("blockquote", Id1X, <<>>, Body),
             Anchor(7, SourceHref(<<>>, TRUE, IdS2), <<"t", "o", "p">>) >>)

\* Text/c.html: a paragraph that links to itself
DocC ==
    MkDoc(<< El("p", IdLoc, <<>>, Body),
             Anchor(1, SourceHref(<<>>, TRUE, IdLoc), <<"u", "p">>) >>)

DocD == MkDoc(<< El("p", <<>>, <<>>, Body) >>)

NavNode(navPoint, label, path, hashed, id, children) ==
    [navPoint |-> navPoint, label |-> label, src |-> path # <<>>, path |-> path,
     hashed |-> hashed, id |-> id, children |-> children]

NavMap ==
    << NavNode(TRUE, <<"C", ":", "1">>, PathB, TRUE, IdS2,
               << NavNode(TRUE, <<"S">>, PathB, TRUE, IdY1, <<>>) >>),
       NavNode(TRUE, <<"A", "A">>, PathA, FALSE, <<>>, <<>>) >>

Manifest(items, title, toc) == [items |-> items, title |-> title, toc |-> toc]
NoManifest == Manifest({}, <<>>, <<>>)

Entry(filepath, name, basename, extension, title, doc, navMap) ==
    [filepath |-> filepath, name |-> name, basename |-> basename,
     extension |-> extension, title |-> title, doc |-> doc, navMap |-> navMap,
     manifest |-> NoManifest]

Prefix == <<"OEBPS">>

\* the manifest of the books: an EPUB 2 book with an NCX file and no
\* navigation page
ManifestItems ==
    { <<PathA, "application/xhtml+xml">>, <<PathB, "application/xhtml+xml">>,
      <<PathC, "application/xhtml+xml">>, <<PathD, "text/html">>,
      <<PathNcx, "application/x-dtbncx+xml">>, <<PathPng, "image/png">>,
      <<PathCss, "text/css">> }
BookTitle == <<"B", "k">>
ManifestToc == <<>>

EntryOpf ==
    [Entry(Prefix \o <<"content.opf">>, "content.opf", <<"c", "o">>, ".opf",
           <<>>, EmptyDoc, <<>>)
        EXCEPT !.manifest = Manifest(ManifestItems, BookTitle, ManifestToc)]
EntryA == Entry(Prefix \o PathA, "a.html", <<"a">>, ".html", <<>>, DocA, <<>>)
EntryB == Entry(Prefix \o PathB, "b.html", <<"b">>, ".html", <<>>, DocB, <<>>)
EntryC == Entry(Prefix \o PathC, "c.html", <<"c">>, ".html", <<"T", "?">>, DocC, <<>>)
EntryD == Entry(Prefix \o PathD, "d.html", <<"d">>, ".html", <<"T", "U+2753">>, DocD, <<>>)
EntryNcx == Entry(Prefix \o PathNcx, "toc.ncx", <<"t", "o", "c">>, ".ncx",
                  <<>>, EmptyDoc, NavMap)
EntryPng == Entry(Prefix \o PathPng, "x.png", <<"x">>, ".png", <<>>, EmptyDoc, <<>>)
EntryCss == Entry(Prefix \o PathCss, "s.css", <<"s">>, ".css", <<>>, EmptyDoc, <<>>)
EntryUnlisted == Entry(Prefix \o <<"notes.txt">>, "notes.txt", <<"n">>, ".txt",
                       <<>>, EmptyDoc, <<>>)
EntryOutside == Entry(<<"mimetype">>, "mimetype", <<"m">>, "", <<>>, EmptyDoc, <<>>)

EntryPool ==
    {EntryOpf, EntryA, EntryB, EntryC, EntryD, EntryNcx, EntryPng, EntryCss,
     EntryUnlisted, EntryOutside}


\* ------------------------------------------------------------------------
\* The import (EpubBook in epub-import).
\* ------------------------------------------------------------------------

VARIABLES
    entries,        \* the entries of the archive (readZip)
    pc,             \* where the import stands
    cancelled,      \* ctx.cancelled
    fileCount,      \* EpubBook.fileCount
    processed,      \* EpubBook.processed
    sourcePrefix,   \* EpubBook.sourcePrefix
    mimeMap,        \* EpubBook.mimeMap
    meta,           \* EpubBook.meta
    assetMap,       \* EpubBook.assetMap, in insertion order
    toc,            \* EpubBook.toc: a position of assetMap, 0 for undefined
    next,           \* the position of the running for-of loop
    drawn,          \* the number of values drawn from Math.random
    settled,        \* how the awaited vault operation settled
    bookFolder,     \* the book's folder in the vault
    vaultFolders,   \* the folders below the book's folder
    vaultFiles,     \* the files in the book's folder, as [folder, file]
    log,            \* the calls made on the report sink (ctx), in order
    result,         \* what import returned
    atCancel,       \* the output and the place when cancellation was set
    rejected,       \* the entries whose asset.import was rejected
    trace,          \* the operations the import has started, in order
    filenameRegistry,   \* EpubBook.filenameRegistry
    registrations,  \* the registerFilename calls made, in order
    titles,         \* a title, and the results of titleToBasename on it
    body,           \* the element injectCodeBlock is applied to
    transformed,    \* whether injectCodeBlock has run on body
    package,        \* the <package> element a BookMetadata is built from
    bookMetadata,   \* BookMetadata.meta: property name -> list of values
    metaSteps,      \* the addProperty and setProperty calls made, in order
    metaPc,         \* where the construction and completion of the metadata stand
    markDoc,        \* the document markElementAsLinkTarget is called on
    requests,       \* the markElementAsLinkTarget calls made, in order
    paths           \* two assets, and the relative path from one to the other

vars == <<entries, pc, cancelled, fileCount, processed, sourcePrefix, mimeMap,
          meta, assetMap, toc, next, drawn, settled, bookFolder, vaultFolders,
          vaultFiles, log, result, atCancel, rejected, trace,
          filenameRegistry, registrations, titles, body, transformed,
          package, bookMetadata, metaSteps, metaPc, markDoc, requests, paths>>

\* the state of the import
importVars == <<entries, pc, cancelled, fileCount, processed, sourcePrefix, mimeMap,
                meta, assetMap, toc, next, drawn, settled, bookFolder, vaultFolders,
                vaultFiles, log, result, atCancel, rejected, trace>>

\* the state the operations outside the import work on
metadataVars == <<package, bookMetadata, metaSteps, metaPc>>
markingVars == <<markDoc, requests>>
toolVars == <<metadataVars, markingVars, paths>>
libVars == <<filenameRegistry, registrations, titles, body, transformed, toolVars>>

NoMeta == [defined |-> FALSE, title |-> <<>>, toc |-> <<>>]

\* a file a pre-existing book folder holds
OldFile == [folder |-> <<>>, file |-> <<"o", "l", "d", ".md">>]

\* the leading digits Math.random() may produce (base 24: 0-9, a-n)
RandomPool == {<<"g">>, <<"7">>}

\* calls on the report sink.  entry is not an argument of the call: it
\* names the archive entry the call is made for (0: the landing page, -1:
\* the book)
Report(type, item, message, entry) ==
    [type |-> type, item |-> item, message |-> message, processed |-> 0,
     total |-> 0, entry |-> entry]
ProgressPostIncrement(p, total, entry) ==
    [type |-> "progress", item |-> <<>>, message |-> "", processed |-> p - 1,
     total |-> total, entry |-> entry]
Progress(p, total, entry) ==
    [type |-> "progress", item |-> <<>>, message |-> "", processed |-> p,
     total |-> total, entry |-> entry]

\* EpubBook.title
title == IF meta.defined /\ meta.title # <<>> THEN meta.title
         ELSE <<"U", "n", "t", "i", "t", "l", "e", "d">>

\* EpubBook.titlePageFilename
titlePageFilename ==
    titleToBasename(<<"U+00A7", " ", "A", "b", "o", "u", "t", ":", " ">> \o title)
        \o <<".md">>
TitlePage == [folder |-> <<>>, file |-> titlePageFilename]

\* the name under which importAssets reports that the folder exists
ImportFailedName == <<"import of '">> \o title \o <<"' failed">>

StartsWith(filepath, prefix) ==
    /\ Len(filepath) > Len(prefix)
    /\ SubSeq(filepath, 1, Len(prefix)) = prefix

\* EpubBook.getSourcePath
getSourcePath(source) == SubSeq(source.filepath, Len(sourcePrefix) + 1, Len(source.filepath))

\* parseFilePath(filepath).parent
Parent(filepath) == SubSeq(filepath, 1, Len(filepath) - 1)

Asset(kind, source, entry, epubPath) ==
    [kind |-> kind, key |-> epubPath, entry |-> entry,
     assetFolderPath |-> Parent(epubPath),
     basename |-> source.basename, extension |-> source.extension,
     pageTitle |-> <<>>, toc |-> FALSE, page |-> EmptyDoc,
     linkTargetMap |-> EmptyMap, navList |-> <<>>]

\* an operation the import starts: parseManifest, parsePage, parseToc,
\* reconnect, createTitlePage or import, and the archive entry it works on
\* (0: the landing page)
Event(op, entry) == [op |-> op, entry |-> entry]

\* no metadata is being built, nothing is being marked, no path computed
NoPackage ==
    [metadata |-> <<>>, cover |-> <<>>, toc |-> <<>>, items |-> <<>>,
     coverPageImage |-> <<>>]
MetadataAtRest ==
    /\ package = NoPackage
    /\ bookMetadata = EmptyMap
    /\ metaSteps = <<>>
    /\ metaPc = [at |-> "rest", i |-> 0]
MarkingAtRest ==
    /\ markDoc = EmptyDoc
    /\ requests = <<>>
ToolsAtRest ==
    /\ MetadataAtRest
    /\ MarkingAtRest
    /\ paths = <<>>

\* nothing outside the import has been called
LibraryAtRest ==
    /\ filenameRegistry = {}
    /\ registrations = <<>>
    /\ titles = <<>>
    /\ body = EmptyDoc
    /\ transformed = FALSE
    /\ ToolsAtRest

Init ==
    /\ entries \in InjSeqs(EntryPool, MaxEntries)
    /\ pc = "start"
    /\ cancelled = FALSE
    /\ fileCount = 0
    /\ processed = 0
    /\ sourcePrefix = <<>>
    /\ mimeMap = EmptyMap
    /\ meta = NoMeta
    /\ assetMap = <<>>
    /\ toc = 0
    /\ next = 0
    /\ drawn = 0
    /\ settled = "none"
    /\ bookFolder \in {"absent", "existing"}
    /\ vaultFolders = {}
    /\ vaultFiles = IF bookFolder = "existing" THEN {OldFile} ELSE {}
    /\ log = <<>>
    /\ result = "none"
    /\ atCancel = [set |-> FALSE, files |-> {}, pc |-> "", log |-> 0, writes |-> 0]
    /\ rejected = {}
    /\ trace = <<>>
    /\ LibraryAtRest

\* the progress denominator: one more for the book's about page
FileCountOfEntries(es) == Len(es)
FileCount(es) == Len(es) + 1

\* the first entry with extension 'opf', 0 when there is none
RECURSIVE FindManifest(_, _)
FindManifest(es, from) ==
    IF from > Len(es) THEN 0
    ELSE IF es[from].extension = ".opf" THEN from
    ELSE FindManifest(es, from + 1)

\* import calls readZip, whose callback runs addAssets up to its first
\* await.  Without a manifest addAssets returns at once and importAssets
\* reads this.title, that is this.meta.asString of an undefined meta: the
\* TypeError rejects the callback, and nothing on the way reports it.
AddAssets ==
    /\ pc = "start"
    /\ fileCount' = FileCount(entries)
    /\ IF FindManifest(entries, 1) = 0
       THEN pc' = "crashed" /\ log' = log
       ELSE pc' = "parseManifest" /\ log' = Append(log, Report("status", <<>>, "", -1))
    /\ UNCHANGED <<entries, cancelled, processed, sourcePrefix, mimeMap, meta,
                   assetMap, toc, next, drawn, settled, bookFolder, vaultFolders,
                   vaultFiles, result, atCancel, rejected, trace, libVars>>

\* what parseManifest keeps of the manifest: the metadata the import reads
\* and the mimetype of every item
MetaOf(manifest) == [defined |-> TRUE, title |-> manifest.title, toc |-> manifest.toc]
MimeMapOfImages(items) == [href \in {item[1] : item \in items} |-> "image/png"]
MimeMapOf(items) ==
    [href \in {item[1] : item \in items} |-> (CHOOSE item \in items : item[1] = href)[2]]

\* parseManifest after its readText: the source prefix, the metadata and
\* the mimetype map
parseManifest ==
    /\ pc = "parseManifest"
    /\ \E read \in {"ok", "err"} :
        IF read = "err"
        THEN /\ pc' = "crashed"
             /\ UNCHANGED <<sourcePrefix, meta, mimeMap, next>>
        ELSE /\ sourcePrefix' = Parent(entries[FindManifest(entries, 1)].filepath)
             /\ meta' = MetaOf(entries[FindManifest(entries, 1)].manifest)
             /\ mimeMap' = MimeMapOf(entries[FindManifest(entries, 1)].manifest.items)
             /\ next' = 1
             /\ pc' = "classify"
    /\ trace' = Append(trace, Event("parseManifest", FindManifest(entries, 1)))
    /\ UNCHANGED <<entries, cancelled, fileCount, processed, assetMap, toc, drawn,
                   settled, bookFolder, vaultFolders, vaultFiles, log, result, atCancel,
                   rejected, libVars>>

\* assetMap.set(epubPath, asset)
MapSetOverLast(assets, asset) ==
    IF assets = <<>> THEN <<asset>> ELSE [assets EXCEPT ![Len(assets)] = asset]
MapSet(assets, asset) ==
    IF getAsset(assets, asset.key) = 0 THEN Append(assets, asset)
    ELSE [assets EXCEPT ![getAsset(assets, asset.key)] = asset]

\* if (isToc && !this.toc) this.toc = page: the book's table of contents
\* after a page has been classified (0: none so far)
TocOfPageLastWins(current, isToc, page) == IF isToc THEN page ELSE current
TocOfPage(current, isToc, page) == IF isToc /\ current = 0 THEN page ELSE current

\* PageAsset.parse after its readText; injectCodeBlock and
\* hoistTableCaptions touch neither ids, hyperlinks nor markers
PageParse(asset, source, isToc) ==
    [asset EXCEPT !.toc = isToc, !.page = source.doc, !.pageTitle = source.title]

\* whether addAssets makes a page of the entry
IsPage(source) ==
    /\ StartsWith(source.filepath, sourcePrefix)
    /\ getSourcePath(source) \in DOMAIN mimeMap
    /\ mimeMap[getSourcePath(source)] \in {"text/html", "application/xhtml+xml"}

\* one iteration of the loop of addAssets over the entries
Classify ==
    /\ pc = "classify"
    /\ next <= Len(entries)
    /\ LET source == entries[next]
           epubPath == getSourcePath(source)
           mimetype == IF epubPath \in DOMAIN mimeMap THEN mimeMap[epubPath] ELSE "?"
           skip(reports) ==
               /\ processed' = processed + 1
               /\ log' = log \o reports \o <<Progress(processed + 1, fileCount, next)>>
               /\ pc' = pc
               /\ UNCHANGED <<assetMap, toc>>
       IN  IF ~StartsWith(source.filepath, sourcePrefix)
           THEN skip(<<Report("skipped", source.name, "is not part of the book", next)>>)
           ELSE IF mimetype \in {"text/html", "application/xhtml+xml"}
           THEN \E read \in {"ok", "err"} :
                   IF read = "err"
                   THEN pc' = "crashed" /\ UNCHANGED <<assetMap, toc, processed, log>>
                   ELSE LET isToc == meta.toc = epubPath
                            page == PageParse(Asset("page", source, next, epubPath),
                                              source, isToc)
                        IN  /\ assetMap' = MapSet(assetMap, page)
                            /\ toc' = TocOfPage(toc, isToc, getAsset(assetMap', epubPath))
                            /\ pc' = pc
                            /\ UNCHANGED <<processed, log>>
           ELSE IF mimetype = "application/x-dtbncx+xml"
           THEN /\ assetMap' = MapSet(assetMap, Asset("toc", source, next, epubPath))
                /\ toc' = getAsset(assetMap', epubPath)
                /\ pc' = pc
                /\ UNCHANGED <<processed, log>>
           ELSE IF mimetype = "text/css"
           THEN skip(<<>>)
           ELSE IF mimetype = "?"
           THEN IF source.extension # ".opf"
                THEN skip(<<Report("skipped", source.name, "is not part of the book", next)>>)
                ELSE skip(<<>>)
           ELSE IF source.extension # ""
           THEN /\ assetMap' = MapSet(assetMap, Asset("media", source, next, epubPath))
                /\ pc' = pc
                /\ UNCHANGED <<toc, processed, log>>
           ELSE skip(<<Report("skipped", source.name, "has unsupported mimetype", next)>>)
    /\ next' = next + 1
    /\ trace' = IF IsPage(entries[next]) THEN Append(trace, Event("parsePage", next))
                ELSE trace
    /\ UNCHANGED <<entries, cancelled, fileCount, sourcePrefix, mimeMap, meta, drawn,
                   settled, bookFolder, vaultFolders, vaultFiles, result, atCancel,
                   rejected, libVars>>

\* the for-of loop of addAssets has gone over every entry
FirstEntryClassified == next > 1
LoopOverEntriesDone == next > Len(entries)

\* the end of addAssets: the table of contents is parsed once the loop is
\* over (the cover image only adds a metadata property); importAssets
\* then asks the vault whether the book's folder exists
tocParse ==
    /\ pc = "classify"
    /\ LoopOverEntriesDone
    /\ IF toc # 0 /\ assetMap[toc].kind = "toc"
       THEN \E read \in {"ok", "err"}, random \in RandomPool :
               IF read = "err"
               THEN pc' = "crashed" /\ UNCHANGED <<assetMap, drawn>>
               ELSE \E parsed \in {TocParse([assets |-> assetMap, drawn |-> drawn], toc,
                                            entries[assetMap[toc].entry].navMap, random)} :
                        /\ assetMap' = parsed.assets
                        /\ drawn' = parsed.drawn
                        /\ pc' = "exists"
       ELSE pc' = "exists" /\ UNCHANGED <<assetMap, drawn>>
    /\ trace' = IF toc # 0 /\ assetMap[toc].kind = "toc"
                THEN Append(trace, Event("parseToc", assetMap[toc].entry))
                ELSE trace
    /\ UNCHANGED <<entries, cancelled, fileCount, processed, sourcePrefix, mimeMap,
                   meta, toc, next, settled, bookFolder, vaultFolders, vaultFiles,
                   log, result, atCancel, rejected, libVars>>

FolderExistsIgnored ==
    /\ pc = "exists"
    /\ log' = log
    /\ pc' = "createFolder"
    /\ UNCHANGED <<entries, cancelled, fileCount, processed, sourcePrefix, mimeMap,
                   meta, assetMap, toc, next, drawn, settled, bookFolder, vaultFolders,
                   vaultFiles, result, atCancel, rejected, trace, libVars>>

\* importAssets after vault.adapter.exists(bookFolderPath)
FolderExists ==
    /\ pc = "exists"
    /\ IF bookFolder = "existing"
       THEN /\ log' = Append(log, Report("failed", ImportFailedName,
                                         "The output folder for this book already exists!", -1))
            /\ pc' = "returned"
       ELSE /\ log' = log
            /\ pc' = "createFolder"
    /\ UNCHANGED <<entries, cancelled, fileCount, processed, sourcePrefix, mimeMap,
                   meta, assetMap, toc, next, drawn, settled, bookFolder, vaultFolders,
                   vaultFiles, result, atCancel, rejected, trace, libVars>>

\* the loop "reconnect the link targets in all pages" from position k on
RECURSIVE ReconnectPages(_, _, _)
ReconnectPages(st, k, random) ==
    IF k > Len(st.assets) THEN st
    ELSE CHOOSE after \in {ReconnectPages(reconnected, k + 1, random) :
                              reconnected \in {IF st.assets[k].kind = "page"
                                               THEN reconnectLinks(st, k, random)
                                               ELSE st}} : TRUE

\* the calls of reconnectLinks the loop makes: one for each page, in the
\* order of the asset map
IsPageAsset(asset) == asset.kind = "page"
ReconnectEvents(assets) ==
    LET pages == SelectSeq(assets, IsPageAsset)
    IN  [i \in 1..Len(pages) |-> Event("reconnect", pages[i].entry)]

\* importAssets after vault.createFolder: the reconnection loop, which has
\* no await, and the request to create the landing page
ReconnectLinks ==
    /\ pc = "createFolder"
    /\ bookFolder' = IF bookFolder = "absent" THEN "created" ELSE bookFolder
    /\ IF assetMap # <<>> /\ cancelled
       THEN /\ pc' = "returned"
            /\ log' = Append(log, Report("status", <<>>, "", -1))
            /\ UNCHANGED <<assetMap, drawn, trace>>
       ELSE \E random \in RandomPool :
               \E st \in {ReconnectPages([assets |-> assetMap, drawn |-> drawn], 1, random)} :
                   /\ assetMap' = st.assets
                   /\ drawn' = st.drawn
                   /\ log' = Append(log, Report("status", <<>>, "", -1))
                   /\ trace' = trace \o ReconnectEvents(assetMap)
                                     \o <<Event("createTitlePage", 0)>>
                   /\ pc' = "createTitlePage"
    /\ UNCHANGED <<entries, cancelled, fileCount, processed, sourcePrefix, mimeMap,
                   meta, toc, next, settled, vaultFolders, vaultFiles, result, atCancel,
                   rejected, libVars>>

\* the vault settles vault.create(path, content): the file exists
\* afterwards, or the promise is rejected; it is rejected when the file
\* already exists
VaultCreate(path, then) ==
    \E outcome \in {"ok", "err"} :
        /\ outcome = "ok" => path \notin vaultFiles
        /\ settled' = outcome
        /\ vaultFiles' = IF outcome = "ok" THEN vaultFiles \cup {path} ELSE vaultFiles
        /\ pc' = then

\* the vault settles the creation of the landing page
CreateTitlePage ==
    /\ pc = "createTitlePage"
    /\ VaultCreate(TitlePage, "titlePageSettled")
    /\ UNCHANGED <<entries, cancelled, fileCount, processed, sourcePrefix, mimeMap,
                   meta, assetMap, toc, next, drawn, bookFolder, vaultFolders, log,
                   result, atCancel, rejected, trace, libVars>>

\* the top of the loop "import all recognized assets" at position k: the
\* loop ends, or the import is cancelled, or asset.import is awaited
LoopTopIgnoringCancel(k) ==
    /\ next' = k
    /\ pc' = IF k > Len(assetMap) THEN "returned" ELSE "import"
LoopTopRetrying(k) ==
    /\ next' = IF settled = "err" THEN k - 1 ELSE k
    /\ pc' = IF next' > Len(assetMap) \/ cancelled THEN "returned" ELSE "import"
LoopTop(k) ==
    /\ next' = k
    /\ pc' = IF k > Len(assetMap) \/ cancelled THEN "returned" ELSE "import"

\* importAssets after the landing page has been created: a rejection is
\* not caught
TitlePageCreated ==
    /\ pc = "titlePageSettled"
    /\ IF settled = "err"
       THEN pc' = "crashed" /\ UNCHANGED <<processed, log, next>>
       ELSE /\ processed' = processed + 1
            /\ log' = log \o <<Report("note", titlePageFilename, "", 0),
                               Progress(processed + 1, fileCount, 0)>>
            /\ LoopTop(1)
    /\ settled' = "none"
    /\ trace' = IF pc' = "import"
                THEN Append(trace, Event("import", assetMap[next'].entry))
                ELSE trace
    /\ UNCHANGED <<entries, cancelled, fileCount, sourcePrefix, mimeMap, meta, assetMap,
                   toc, drawn, bookFolder, vaultFolders, vaultFiles, result, atCancel,
                   rejected, libVars>>

\* the folders getVaultOutputPath creates for an asset
FoldersOf(asset) ==
    {SubSeq(asset.assetFolderPath, 1, n) : n \in 1..Len(asset.assetFolderPath)}

\* asset.import(bookFolder) settles: the folders of the asset exist and its
\* file has been created, or the promise is rejected
AssetImport ==
    /\ pc = "import"
    /\ vaultFolders' = vaultFolders \cup FoldersOf(assetMap[next])
    /\ VaultCreate(outputPath(assetMap[next]), "importSettled")
    /\ rejected' = IF settled' = "err" THEN rejected \cup {assetMap[next].entry}
                   ELSE rejected
    /\ UNCHANGED <<entries, cancelled, fileCount, processed, sourcePrefix, mimeMap,
                   meta, assetMap, toc, next, drawn, bookFolder, log, result, atCancel,
                   trace, libVars>>

\* the report of one iteration: the success report of the try block, or
\* the failure report of the catch block
ImportReportWithoutCatch(asset, outcome) ==
    IF asset.kind = "media"
    THEN Report("attachment", outputFilename(asset), "", asset.entry)
    ELSE Report("note", outputFilename(asset), "", asset.entry)
ImportReport(asset, outcome) ==
    IF outcome = "err"
    THEN Report("failed", outputFilename(asset), "ex.message", asset.entry)
    ELSE IF asset.kind = "media"
    THEN Report("attachment", outputFilename(asset), "", asset.entry)
    ELSE Report("note", outputFilename(asset), "", asset.entry)

\* the rest of the iteration for the asset at position next, and the top
\* of the following iteration
AssetImported ==
    /\ pc = "importSettled"
    /\ LET asset == assetMap[next]
       IN  log' = log \o <<ImportReport(asset, settled),
                           Progress(processed + 1, fileCount, asset.entry)>>
    /\ processed' = processed + 1
    /\ LoopTop(next + 1)
    /\ settled' = "none"
    /\ trace' = IF pc' = "import"
                THEN Append(trace, Event("import", assetMap[next'].entry))
                ELSE trace
    /\ UNCHANGED <<entries, cancelled, fileCount, sourcePrefix, mimeMap, meta, assetMap,
                   toc, drawn, bookFolder, vaultFolders, vaultFiles, result, atCancel,
                   rejected, libVars>>

\* import after readZip: the final status and the return value
ImportReturns ==
    /\ pc = "returned"
    /\ log' = Append(log, Report("status", <<>>, "", -1))
    /\ result' = (fileCount > 0 /\ fileCount = processed)
    /\ pc' = "done"
    /\ UNCHANGED <<entries, cancelled, fileCount, processed, sourcePrefix, mimeMap,
                   meta, assetMap, toc, next, drawn, settled, bookFolder, vaultFolders,
                   vaultFiles, atCancel, rejected, trace, libVars>>

\* the operations that write to the output store
IsWrite(event) == event.op \in {"createTitlePage", "import"}

\* the user cancels the import while it waits for an awaited operation
Cancel ==
    /\ pc \notin {"start", "done", "crashed"}
    /\ ~cancelled
    /\ cancelled' = TRUE
    /\ atCancel' = [set |-> TRUE, files |-> vaultFiles, pc |-> pc, log |-> Len(log),
                    writes |-> Len(SelectSeq(trace, IsWrite))]
    /\ UNCHANGED <<entries, pc, fileCount, processed, sourcePrefix, mimeMap, meta,
                   assetMap, toc, next, drawn, settled, bookFolder, vaultFolders,
                   vaultFiles, log, result, rejected, trace, libVars>>

Next ==
    \/ AddAssets
    \/ parseManifest
    \/ Classify
    \/ tocParse
    \/ FolderExists
    \/ ReconnectLinks
    \/ CreateTitlePage
    \/ TitlePageCreated
    \/ AssetImport
    \/ AssetImported
    \/ ImportReturns
    \/ Cancel

Spec == Init /\ [][Next]_vars

\* ------------------------------------------------------------------------
\* Operations of the importer taken on their own.  While one of them is
\* exercised no import runs.
\* ------------------------------------------------------------------------

\* a book that has been constructed and whose import has not been called
ImportAtRest ==
    /\ entries = <<>>
    /\ pc = "start"
    /\ cancelled = FALSE
    /\ fileCount = 0
    /\ processed = 0
    /\ sourcePrefix = <<>>
    /\ mimeMap = EmptyMap
    /\ meta = NoMeta
    /\ assetMap = <<>>
    /\ toc = 0
    /\ next = 0
    /\ drawn = 0
    /\ settled = "none"
    /\ bookFolder = "absent"
    /\ vaultFolders = {}
    /\ vaultFiles = {}
    /\ log = <<>>
    /\ result = "none"
    /\ atCancel = [set |-> FALSE, files |-> {}, pc |-> "", log |-> 0, writes |-> 0]
    /\ rejected = {}
    /\ trace = <<>>

\* ------------------------------------------------------------------------
\* The classification (addAssets) taken on its own, on the entries of an
\* EPUB 3 book: the manifest names a navigation page, the NCX file has a
\* navMap with a child that is no navPoint, nested navPoints, and
\* navPoints for pages with and without a title element.
\* ------------------------------------------------------------------------

PathNav == <<"nav.xhtml">>
PathReadme == <<"README">>

NavMapDeep ==
    << NavNode(FALSE, <<>>, <<>>, FALSE, <<>>, <<>>),
       NavNode(TRUE, <<>>, PathB, FALSE, <<>>, <<>>),
       NavNode(TRUE, <<"C", "e", "e">>, PathC, FALSE, <<>>, <<>>),
       NavNode(TRUE, <<"C", ":", "1">>, PathB, TRUE, IdS2,
               << NavNode(FALSE, <<>>, <<>>, FALSE, <<>>, <<>>),
                  NavNode(TRUE, <<"S">>, PathB, TRUE, IdY1,
                          << NavNode(TRUE, <<"S", "1">>, PathB, FALSE, <<>>, <<>>) >>) >>),
       NavNode(TRUE, <<>>, PathNav, FALSE, <<>>, <<>>) >>

NavManifestItems ==
    { <<PathB, "application/xhtml+xml">>, <<PathC, "application/xhtml+xml">>,
      <<PathNav, "application/xhtml+xml">>, <<PathNcx, "application/x-dtbncx+xml">>,
      <<PathPng, "image/png">>, <<PathCss, "text/css">>, <<PathReadme, "text/plain">> }

\* the manifest item of the navigation page has properties="nav"
EntryOpfNav == [EntryOpf EXCEPT !.manifest = Manifest(NavManifestItems, BookTitle, PathNav)]
EntryNav == Entry(Prefix \o PathNav, "nav.xhtml", <<"n", "a", "v">>, ".xhtml",
                  <<"N">>, DocD, <<>>)
EntryNcxDeep == [EntryNcx EXCEPT !.navMap = NavMapDeep]
EntryReadme == Entry(Prefix \o PathReadme, "README", <<"R">>, "", <<>>, EmptyDoc, <<>>)

ClassifyPool ==
    {EntryOpfNav, EntryB, EntryC, EntryNav, EntryNcxDeep, EntryPng, EntryCss,
     EntryUnlisted, EntryOutside, EntryReadme}

InitClassify ==
    /\ entries \in InjSeqs(ClassifyPool, MaxEntries)
    /\ pc = "start"
    /\ cancelled = FALSE
    /\ fileCount = 0
    /\ processed = 0
    /\ sourcePrefix = <<>>
    /\ mimeMap = EmptyMap
    /\ meta = NoMeta
    /\ assetMap = <<>>
    /\ toc = 0
    /\ next = 0
    /\ drawn = 0
    /\ settled = "none"
    /\ bookFolder = "absent"
    /\ vaultFolders = {}
    /\ vaultFiles = {}
    /\ log = <<>>
    /\ result = "none"
    /\ atCancel = [set |-> FALSE, files |-> {}, pc |-> "", log |-> 0, writes |-> 0]
    /\ rejected = {}
    /\ trace = <<>>
    /\ LibraryAtRest

\* addAssets from its call to its return; the user may cancel meanwhile
NextClassify ==
    \/ AddAssets
    \/ parseManifest
    \/ Classify
    \/ tocParse
    \/ Cancel

SpecClassify == InitClassify /\ [][NextClassify]_vars

\* ------------------------------------------------------------------------
\* The filename registry of a book
\* ------------------------------------------------------------------------

\* the largest number of registerFilename calls on a book
MaxCalls == 4

\* the filenames the callers pass
Filenames == {<<"T", ".md">>, <<"a", ".md">>, <<"x", ".png">>}

\* a registerFilename call: its argument, what it returned, and the
\* registry before and after it
Registration(filename, returned, before, after) ==
    [filename |-> filename, returned |-> returned, before |-> before, after |-> after]

InitRegistry ==
    /\ ImportAtRest
    /\ filenameRegistry = {}
    /\ registrations = <<>>
    /\ titles = <<>>
    /\ body = EmptyDoc
    /\ transformed = FALSE
    /\ ToolsAtRest

registerFilenameOverwriting(filename) ==
    /\ Len(registrations) < MaxCalls
    /\ filenameRegistry' = {filename}
    /\ registrations' = Append(registrations,
                                Registration(filename, TRUE, filenameRegistry, {filename}))
    /\ UNCHANGED <<importVars, titles, body, transformed, toolVars>>

\* EpubBook.registerFilename(filename)
registerFilename(filename) ==
    /\ Len(registrations) < MaxCalls
    /\ IF filename \in filenameRegistry
       THEN /\ filenameRegistry' = filenameRegistry
            /\ registrations' = Append(registrations,
                                        Registration(filename, FALSE, filenameRegistry,
                                                     filenameRegistry'))
       ELSE /\ filenameRegistry' = filenameRegistry \cup {filename}
            /\ registrations' = Append(registrations,
                                        Registration(filename, TRUE, filenameRegistry,
                                                     filenameRegistry'))
    /\ UNCHANGED <<importVars, titles, body, transformed, toolVars>>

NextRegistry == \E filename \in Filenames : registerFilename(filename)

SpecRegistry == InitRegistry /\ [][NextRegistry]_vars

\* ------------------------------------------------------------------------
\* titleToBasename applied to a title, and to its own result
\* ------------------------------------------------------------------------

\* the longest title
MaxTitleLen == 2

\* the characters of the titles: the characters the table replaces, the
\* characters it puts in their place, whitespace and a letter
TitleAlphabet ==
    {FILENAME_TRANSFORMATIONS[i][1] : i \in 1..Len(FILENAME_TRANSFORMATIONS)}
        \cup {FILENAME_TRANSFORMATIONS[i][2] : i \in 1..Len(FILENAME_TRANSFORMATIONS)}
        \cup Whitespace \cup {"a"}

Titles == UNION {[1..n -> TitleAlphabet] : n \in 0..MaxTitleLen}

InitBasename ==
    /\ ImportAtRest
    /\ filenameRegistry = {}
    /\ registrations = <<>>
    /\ titles \in {<<t>> : t \in Titles}
    /\ body = EmptyDoc
    /\ transformed = FALSE
    /\ ToolsAtRest

\* titleToBasename is called on the title, and then on what it returned
TitleToBasename ==
    /\ Len(titles) \in {1, 2}
    /\ titles' = Append(titles, titleToBasename(titles[Len(titles)]))
    /\ UNCHANGED <<importVars, filenameRegistry, registrations, body, transformed, toolVars>>

NextBasename == TitleToBasename

SpecBasename == InitBasename /\ [][NextBasename]_vars

\* ------------------------------------------------------------------------
\* injectCodeBlock (ebook-transformers).  Here a document holds its text
\* nodes too: el[n] is the node n with its tag ("#text" for a text node),
\* its parent (NoNode once it is removed) and, for a text node, whether
\* its text is empty when trimmed; kids[n] is the sequence of all child
\* nodes of n.  Node 0 is the element the transformation is applied to.
\* ------------------------------------------------------------------------

\* the largest number of nodes below the element
MaxNodes == 3

TextNode(blank, parent) == [tag |-> "#text", blank |-> blank, parent |-> parent]
ElementNode(tag, parent) == [tag |-> tag, blank |-> FALSE, parent |-> parent]

\* Node.nodeType === Node.TEXT_NODE
IsText(doc, n) == doc.el[n].tag = "#text"

\* pre.firstElementChild
FirstElementChild(doc, n) ==
    LET E == {i \in 1..Len(doc.kids[n]) : ~IsText(doc, doc.kids[n][i])}
    IN  IF E = {} THEN NoNode
        ELSE doc.kids[n][CHOOSE i \in E : \A j \in E : i <= j]

\* element.getElementsByTagName('pre'): the pre elements below the
\* element, in document order
Pres(doc) ==
    InDocumentOrder(doc, {n \in Below(doc, <<>>) : doc.el[n].tag = "pre"})

\* the number of whitespace-only text nodes the children start with
LeadingBlanks(doc, n) ==
    CHOOSE k \in 0..Len(doc.kids[n]) :
        /\ \A j \in 1..k : IsText(doc, doc.kids[n][j]) /\ doc.el[doc.kids[n][j]].blank
        /\ k < Len(doc.kids[n]) =>
              ~(IsText(doc, doc.kids[n][k + 1]) /\ doc.el[doc.kids[n][k + 1]].blank)

\* "remove emptylines": the loop that removes the first child while it is
\* a whitespace-only text node
Removed(doc, pre, k) ==
    [el |-> [m \in 1..Len(doc.el) |->
                IF \E j \in 1..k : doc.kids[pre][j] = m
                THEN [doc.el[m] EXCEPT !.parent = NoNode] ELSE doc.el[m]],
     kids |-> [doc.kids EXCEPT ![pre] = SubSeq(@, k + 1, Len(@))]]
RemoveEmptyLines(doc, pre) == Removed(doc, pre, LeadingBlanks(doc, pre))

\* a new code element takes all children of pre and becomes its only child
Wrap(doc, pre, code) ==
    [el |-> [m \in 1..code |->
                IF m = code THEN ElementNode("code", pre)
                ELSE IF doc.el[m].parent = pre THEN [doc.el[m] EXCEPT !.parent = code]
                ELSE doc.el[m]],
     kids |-> [m \in 0..code |->
                  IF m = code THEN doc.kids[pre]
                  ELSE IF m = pre THEN <<code>>
                  ELSE doc.kids[m]]]

\* !firstChildelement || firstChildelement.localName !== 'code'
NeedsCodeWhenNoElement(doc, first) == first = NoNode
NeedsCode(doc, first) == first = NoNode \/ doc.el[first].tag # "code"

\* the body of the loop for one pre element
WrapUnlessCode(doc, pre) ==
    IF NeedsCode(doc, FirstElementChild(doc, pre)) THEN Wrap(doc, pre, Len(doc.el) + 1)
    ELSE doc
InjectOne(doc, pre) == WrapUnlessCode(RemoveEmptyLines(doc, pre), pre)

\* the loop over the pre elements found at the start
RECURSIVE InjectAll(_, _, _)
InjectAll(doc, pres, i) ==
    IF i > Len(pres) THEN doc ELSE InjectAll(InjectOne(doc, pres[i]), pres, i + 1)

injectCodeBlock(doc) == InjectAll(doc, Pres(doc), 1)

\* the nodes a document is made of
NodeKinds ==
    {ElementNode("pre", NoNode), ElementNode("code", NoNode), ElementNode("span", NoNode),
     TextNode(TRUE, NoNode), TextNode(FALSE, NoNode)}

\* the sequences of n nodes in which every node has an element that comes
\* before it, or the root, as its parent
Parents(n, kinds) ==
    {ps \in [1..n -> 0..(n - 1)] :
        \A m \in 1..n : ps[m] < m /\ (ps[m] # 0 => kinds[ps[m]].tag # "#text")}
NodeSeqs(n) ==
    UNION {{[m \in 1..n |-> [kinds[m] EXCEPT !.parent = parents[m]]] :
                parents \in Parents(n, kinds)} :
               kinds \in [1..n -> NodeKinds]}

Bodies == UNION {{MkDoc(els) : els \in NodeSeqs(n)} : n \in 0..MaxNodes}

InitCodeBlock ==
    /\ ImportAtRest
    /\ filenameRegistry = {}
    /\ registrations = <<>>
    /\ titles = <<>>
    /\ body \in Bodies
    /\ transformed = FALSE
    /\ ToolsAtRest

\* injectCodeBlock(body)
InjectCodeBlock ==
    /\ ~transformed
    /\ body' = injectCodeBlock(body)
    /\ transformed' = TRUE
    /\ UNCHANGED <<importVars, filenameRegistry, registrations, titles, toolVars>>

NextCodeBlock == InjectCodeBlock

SpecCodeBlock == InitCodeBlock /\ [][NextCodeBlock]_vars

\* ------------------------------------------------------------------------
\* BookMetadata, from its construction to the last change the book makes
\* to it.  A property value is a sequence of tokens, "" the empty string;
\* a <package> element is
\*   metadata        the children of <metadata>: [key, value], key the
\*                   property name the constructor derives from the node
\*   cover, toc      the href of the guide reference of that type, ""
\*                   when there is none
\*   items           the manifest items: [properties, href]
\*   coverPageImage  the image of the cover page "c.html", "" for none
\* ------------------------------------------------------------------------

\* the largest number of children of <metadata>
MaxChildren == 2

Child(key, value) == [key |-> key, value |-> value]
Item(properties, href) == [properties |-> properties, href |-> href]

CoverPage == <<"c.html">>

Children ==
    {Child(key, value) : key \in {"subject", "cover", "cover-image"},
                         value \in {<<"a">>, <<"b">>}}
        \cup {Child("subject", <<>>)}

Packages ==
    [metadata : UNION {[1..n -> Children] : n \in 0..MaxChildren},
     cover : {<<>>, CoverPage},
     toc : {<<>>, <<"t.html">>},
     items : {<<>>, <<Item("", <<"i">>)>>, <<Item("cover-image", <<"i">>)>>,
              <<Item("nav", <<"i">>)>>},
     coverPageImage : {<<>>, <<"img.png">>}]

\* an addProperty or setProperty call: the map before and after it
MetaStep(op, key, value, before, after) ==
    [op |-> op, key |-> key, value |-> value, before |-> before, after |-> after]

\* Array.prototype.join(',')
RECURSIVE Join(_)
Join(list) ==
    IF list = <<>> THEN <<>>
    ELSE IF Len(list) = 1 THEN list[1]
    ELSE list[1] \o <<",">> \o Join(Tail(list))

\* BookMetadata.asString, "" for undefined
asString(map, name) == IF name \in DOMAIN map THEN Join(map[name]) ELSE <<>>

\* BookMetadata.addProperty
addPropertyReplacing(map, name, value) ==
    [k \in DOMAIN map \cup {name} |-> IF k = name THEN <<value>> ELSE map[k]]
addProperty(map, name, value) ==
    [k \in DOMAIN map \cup {name} |->
        IF k # name THEN map[k]
        ELSE IF name \in DOMAIN map THEN Append(map[name], value)
        ELSE <<value>>]

\* BookMetadata.setProperty
setProperty(map, name, value) ==
    [k \in DOMAIN map \cup {name} |-> IF k = name THEN <<value>> ELSE map[k]]

\* the calls made so far followed by setProperty(name, value), which is
\* made only for a value that is not empty
ThenSet(steps, map, name, value) ==
    IF value = <<>> THEN steps
    ELSE Append(steps, MetaStep("set", name, value, map, setProperty(map, name, value)))

\* the map after the calls, the map given when there was none
MapAfter(steps, map) == IF steps = <<>> THEN map ELSE steps[Len(steps)].after

InitMetadata ==
    /\ ImportAtRest
    /\ filenameRegistry = {}
    /\ registrations = <<>>
    /\ titles = <<>>
    /\ body = EmptyDoc
    /\ transformed = FALSE
    /\ MarkingAtRest
    /\ paths = <<>>
    /\ package \in Packages
    /\ bookMetadata = EmptyMap
    /\ metaSteps = <<>>
    /\ metaPc = [at |-> "metadata", i |-> 1]

\* one iteration of the constructor's loop over the children of <metadata>
ReadChild ==
    /\ metaPc.at = "metadata"
    /\ metaPc.i <= Len(package.metadata)
    /\ LET node == package.metadata[metaPc.i]
       IN  IF node.key # "" /\ node.value # <<>>
           THEN /\ bookMetadata' = addProperty(bookMetadata, node.key, node.value)
                /\ metaSteps' = Append(metaSteps,
                                        MetaStep("add", node.key, node.value,
                                                 bookMetadata, bookMetadata'))
           ELSE UNCHANGED <<bookMetadata, metaSteps>>
    /\ metaPc' = [metaPc EXCEPT !.i = @ + 1]
    /\ UNCHANGED <<importVars, filenameRegistry, registrations, titles, body,
                   transformed, package, markingVars, paths>>

\* the rest of the constructor: the cover and the toc reference of the guide
ReadGuide ==
    /\ metaPc.at = "metadata"
    /\ metaPc.i > Len(package.metadata)
    /\ LET cover == ThenSet(<<>>, bookMetadata, "cover", package.cover)
           both == ThenSet(cover, MapAfter(cover, bookMetadata), "toc", package.toc)
       IN  /\ metaSteps' = metaSteps \o both
           /\ bookMetadata' = MapAfter(both, bookMetadata)
    /\ metaPc' = [at |-> "items", i |-> 1]
    /\ UNCHANGED <<importVars, filenameRegistry, registrations, titles, body,
                   transformed, package, markingVars, paths>>

\* one iteration of parseManifest's loop over the manifest items
ReadItem ==
    /\ metaPc.at = "items"
    /\ metaPc.i <= Len(package.items)
    /\ LET item == package.items[metaPc.i]
           name == IF item.properties = "nav" THEN "toc" ELSE item.properties
       IN  IF item.properties \in {"cover-image", "nav"}
           THEN /\ bookMetadata' = setProperty(bookMetadata, name, item.href)
                /\ metaSteps' = Append(metaSteps,
                                        MetaStep("set", name, item.href,
                                                 bookMetadata, bookMetadata'))
           ELSE UNCHANGED <<bookMetadata, metaSteps>>
    /\ metaPc' = [metaPc EXCEPT !.i = @ + 1]
    /\ UNCHANGED <<importVars, filenameRegistry, registrations, titles, body,
                   transformed, package, markingVars, paths>>

\* addAssets after its loop: the cover image is the one the metadata names
\* or else the image of the cover page, and it is stored when there is one
CompleteCoverImage ==
    /\ metaPc.at = "items"
    /\ metaPc.i > Len(package.items)
    /\ LET coverImage ==
               IF asString(bookMetadata, "cover-image") # <<>>
               THEN asString(bookMetadata, "cover-image")
               ELSE IF asString(bookMetadata, "cover") = CoverPage
               THEN package.coverPageImage
               ELSE <<>>
       IN  /\ metaSteps' = metaSteps \o ThenSet(<<>>, bookMetadata, "cover-image", coverImage)
           /\ bookMetadata' = MapAfter(ThenSet(<<>>, bookMetadata, "cover-image", coverImage),
                                       bookMetadata)
    /\ metaPc' = [at |-> "done", i |-> 0]
    /\ UNCHANGED <<importVars, filenameRegistry, registrations, titles, body,
                   transformed, package, markingVars, paths>>

NextMetadata ==
    \/ ReadChild
    \/ ReadGuide
    \/ ReadItem
    \/ CompleteCoverImage

SpecMetadata == InitMetadata /\ [][NextMetadata]_vars

\* ------------------------------------------------------------------------
\* markElementAsLinkTarget called again and again on the elements of one
\* document
\* ------------------------------------------------------------------------

\* the largest number of calls on a document
MaxRequests == 4

\* a list item found by descending from a section, with a preformatted
\* block as its last child; a div with nothing markable below it; a span
\* with nothing markable above it
DocMarkA ==
    MkDoc(<< El("section", IdS2, <<>>, Body),
             El("li", IdAB, <<>>, 1),
             El("pre", Id1X, <<>>, 2),
             El("span", IdY1, <<>>, 3),
             El("div", IdX, <<>>, Body),
             El("span", IdY2, <<>>, Body) >>)

\* a table with a cell and a paragraph in it, followed by a quotation
DocMarkB ==
    MkDoc(<< El("table", IdCD, <<>>, Body),
             El("td", IdEF, <<>>, 1),
             El("p", IdAAB, <<>>, 2),
             El("blockquote", IdZZ, <<>>, Body) >>)

\* a markElementAsLinkTarget call: the element, the block and the strategy
\* the call settled on, the id returned ("" for undefined) and the
\* document before and after
Request(element, mt, id, before, after) ==
    [element |-> element, target |-> mt.target, strategy |-> mt.strategy, id |-> id,
     before |-> before, after |-> after]

InitMark ==
    /\ ImportAtRest
    /\ filenameRegistry = {}
    /\ registrations = <<>>
    /\ titles = <<>>
    /\ body = EmptyDoc
    /\ transformed = FALSE
    /\ MetadataAtRest
    /\ paths = <<>>
    /\ markDoc \in {DocMarkA, DocMarkB}
    /\ requests = <<>>

\* markElementAsLinkTarget(element) for an element that has an id
MarkElement(element, random) ==
    /\ Len(requests) < MaxRequests
    /\ \E marked \in {markElementAsLinkTarget(markDoc, element,
                                                RandomId(random, Len(requests)))} :
          /\ markDoc' = marked.doc
          /\ requests' = Append(requests,
                                Request(element, MarkTarget(markDoc, element), marked.id,
                                        markDoc, marked.doc))
    /\ UNCHANGED <<importVars, filenameRegistry, registrations, titles, body,
                   transformed, metadataVars, paths>>

NextMark ==
    \E element \in {n \in 1..Len(markDoc.el) : markDoc.el[n].id # <<>>},
       random \in RandomPool :
        MarkElement(element, random)

SpecMark == InitMark /\ [][NextMark]_vars

\* ------------------------------------------------------------------------
\* relativePathTo between assets in any two folders of a book
\* ------------------------------------------------------------------------

\* the deepest folder of an asset
MaxDepth == 2

FolderNames == {"OEBPS", "Text", "Images"}
FolderPaths == UNION {[1..n -> FolderNames] : n \in 0..MaxDepth}

\* a page and an image in the given folder
PageIn(folder) == PageParse(Asset("page", EntryC, 0, folder \o <<"c.html">>), EntryC, FALSE)
ImageIn(folder) == Asset("media", EntryPng, 0, folder \o <<"x.png">>)

InitPaths ==
    /\ ImportAtRest
    /\ filenameRegistry = {}
    /\ registrations = <<>>
    /\ titles = <<>>
    /\ body = EmptyDoc
    /\ transformed = FALSE
    /\ MetadataAtRest
    /\ MarkingAtRest
    /\ paths = <<>>

\* this.relativePathTo(targetAsset), a pure function of the two assets:
\* one call with its result is kept
RelativePathTo(this, targetAsset) ==
    /\ paths = <<>>
    /\ paths' = << [this |-> this, targetAsset |-> targetAsset,
                    rel |-> relativePathTo(this, targetAsset)] >>
    /\ UNCHANGED <<importVars, filenameRegistry, registrations, titles, body,
                   transformed, metadataVars, markingVars>>

NextPaths ==
    \E S \in FolderPaths, T \in FolderPaths :
        \E targetAsset \in {PageIn(T), ImageIn(T)} :
            RelativePathTo(PageIn(S), targetAsset)

SpecPaths == InitPaths /\ [][NextPaths]_vars

\* ------------------------------------------------------------------------
\* Properties of the import.
\* ------------------------------------------------------------------------

IsProgress(r) == r.type = "progress"

\* the reportProgress calls made so far, in order
ProgressCalls == SelectSeq(log, IsProgress)

\* the positions of the log holding a report of one of the given types
ReportsOf(types) == {j \in 1..Len(log) : log[j].type \in types}

\* the reports that tell what became of an entry or of the landing page
OutcomeTypes == {"skipped", "note", "attachment", "failed"}

\* the hyperlinks of a document
Anchors(doc) == {n \in 1..Len(doc.el) : doc.el[n].tag = "a" /\ doc.el[n].href.kind # "none"}

\* the import ran to its end: the folder was created and nobody cancelled
NormalCompletion == pc = "done" /\ ~cancelled /\ bookFolder = "created"

\* the link reconnection has run and the write phase is under way
Reconnected == pc \in {"createTitlePage", "titlePageSettled", "import", "importSettled"}

\* C1: over any run the reportProgress calls have the constant total
\* "number of entries + 1", the k-th call reports processed = k (so the
\* first reports 1 and each later one exactly one more), processed never
\* exceeds the total, no entry and no landing page causes two calls, and
\* every report of what became of an entry or of the landing page (skipped,
\* imported, failed) is followed at once by the one call made for it.
C1_ProgressSequence ==
    LET calls == ProgressCalls
    IN  /\ \A k \in 1..Len(calls) :
              /\ calls[k].processed = k
              /\ calls[k].total = Len(entries) + 1
              /\ calls[k].processed <= calls[k].total
              /\ calls[k].entry \in 0..Len(entries)
        /\ \A j, k \in 1..Len(calls) : calls[j].entry = calls[k].entry => j = k
        /\ \A j \in ReportsOf(OutcomeTypes) :
              log[j].entry >= 0 =>
                  /\ j < Len(log)
                  /\ log[j + 1].type = "progress"
                  /\ log[j + 1].entry = log[j].entry

\* a finished run in which an entry was skipped with a report, an asset
\* failed and the landing page was imported
C1_Witness ==
    /\ pc = "done"
    /\ Len(ProgressCalls) = Len(entries) + 1
    /\ ReportsOf({"skipped"}) # {}
    /\ \E j \in ReportsOf({"failed"}) : log[j].entry > 0
    /\ \E j \in ReportsOf({"note"}) : log[j].entry = 0

\* C2: at normal completion (manifest present, output folder absent, never
\* cancelled) the last reportProgress call has processed = total, and the
\* total is the number of archive entries + 1, whatever the mix of skipped,
\* imported and failed entries.
C2_LastProgressIsTotal ==
    NormalCompletion =>
        LET calls == ProgressCalls
        IN  /\ calls # <<>>
            /\ calls[Len(calls)].processed = calls[Len(calls)].total
            /\ calls[Len(calls)].total = Len(entries) + 1

\* a normal completion with an imported attachment and a failed asset
C2_Witness ==
    /\ NormalCompletion
    /\ ReportsOf({"attachment"}) # {}
    /\ rejected # {}
    /\ Len(entries) = MaxEntries

\* C3: when the archive holds no manifest the import ends with a failure
\* reported through the report sink, the book folder is never created and
\* no file is written.
C3_MissingManifestReported ==
    (FindManifest(entries, 1) = 0 /\ pc \in {"crashed", "done"}) =>
        /\ ReportsOf({"failed"}) # {}
        /\ bookFolder # "created"
        /\ vaultFiles \subseteq {OldFile}

\* C4: when the book's output folder already exists the import reports the
\* failure exactly once and writes nothing: no folder is created, neither
\* the landing page nor any asset is written or reported as imported, no
\* hyperlink is reconnected, and the folder keeps its contents.
C4_ExistingFolderUntouched ==
    bookFolder = "existing" =>
        /\ vaultFiles = {OldFile}
        /\ vaultFolders = {}
        /\ ReportsOf({"note", "attachment"}) = {}
        /\ \A k \in 1..Len(assetMap) :
              assetMap[k].kind = "page" =>
                  \A n \in Anchors(assetMap[k].page) :
                      assetMap[k].page.el[n].href.kind = "source"
        /\ Cardinality(ReportsOf({"failed"})) <= 1
        /\ pc \in {"returned", "done"} =>
              /\ Cardinality(ReportsOf({"failed"})) = 1
              /\ \A j \in ReportsOf({"failed"}) : log[j].item = ImportFailedName
        /\ pc \notin {"createFolder", "createTitlePage", "titlePageSettled",
                      "import", "importSettled"}

\* an import into an existing folder has returned; the book holds a page
\* with hyperlinks and a second asset
C4_Witness ==
    /\ bookFolder = "existing"
    /\ pc = "done"
    /\ Len(assetMap) >= 2
    /\ \E k \in 1..Len(assetMap) :
          assetMap[k].kind = "page" /\ Anchors(assetMap[k].page) # {}

\* the position of the asset made from entry e
AssetOfEntry(e) == CHOOSE k \in 1..Len(assetMap) : assetMap[k].entry = e

\* C5: when asset.import is rejected for an asset, the rejection is caught
\* (the import does not end with it); once the loop has moved on there is
\* exactly one failure report for the asset, naming its output file and
\* carrying the message, and no success report for it; the report is
\* followed by a progress call one greater than the one before; and when
\* the import completes uncancelled every later asset has been attempted
\* (has its own report).
C5_FailureIsContained ==
    \A e \in rejected :
        LET k == AssetOfEntry(e)
            failures == {j \in ReportsOf({"failed"}) : log[j].entry = e}
        IN  /\ pc # "crashed"
            /\ (pc = "importSettled" /\ next = k) =>
                  {j \in ReportsOf(OutcomeTypes) : log[j].entry = e} = {}
            /\ ~(pc = "importSettled" /\ next = k) =>
                  /\ Cardinality(failures) = 1
                  /\ {j \in ReportsOf({"note", "attachment"}) : log[j].entry = e} = {}
                  /\ \A j \in failures :
                        /\ log[j].item = outputFilename(assetMap[k])
                        /\ log[j].message = "ex.message"
                        /\ log[j + 1].type = "progress"
                        /\ log[j + 1].processed =
                              Len(SelectSeq(SubSeq(log, 1, j), IsProgress)) + 1
                  /\ NormalCompletion =>
                        \A later \in (k + 1)..Len(assetMap) :
                            \E j \in ReportsOf({"failed", "note", "attachment"}) :
                                log[j].entry = assetMap[later].entry

\* a normal completion in which the import of an asset was rejected and a
\* later asset was imported
C5_Witness ==
    /\ NormalCompletion
    /\ \E e \in rejected :
          \E later \in (AssetOfEntry(e) + 1)..Len(assetMap) :
              \E j \in ReportsOf({"note", "attachment"}) :
                  log[j].entry = assetMap[later].entry

\* the asset files among a set of files
AssetFiles(files) == files \ {TitlePage}

\* C6 as stated: when the cancellation flag is set after N of the M assets
\* have been written (no write being in flight), the import returns without
\* an exception and exactly N files exist in the output folder.
C6_ExactlyNFiles ==
    (atCancel.set /\ atCancel.pc \in {"titlePageSettled", "importSettled"}) =>
        /\ pc # "crashed"
        /\ pc = "done" =>
              Cardinality(vaultFiles) = Cardinality(AssetFiles(atCancel.files))

\* C6 amended: when the cancellation flag is set after the landing page and
\* N of the M assets have been written, the import returns without an
\* exception and the output folder holds exactly N + 1 files, the landing
\* page and the N assets; it holds N + 2 only when the write of one more
\* asset was in flight as the flag was set and that write succeeds.
C6_LandingPagePlusN ==
    (atCancel.set /\ atCancel.files # {} /\ TitlePage \in atCancel.files) =>
        LET N == Cardinality(atCancel.files) - 1
        IN  /\ pc # "crashed"
            /\ atCancel.files \subseteq vaultFiles
            /\ pc = "done" =>
                  IF atCancel.pc = "import"
                  THEN Cardinality(vaultFiles) \in {N + 1, N + 2}
                  ELSE vaultFiles = atCancel.files /\ Cardinality(vaultFiles) = N + 1

\* the import has returned after a cancellation that came when one asset
\* was written and another was still to be written
C6_Witness ==
    /\ pc = "done"
    /\ atCancel.set
    /\ atCancel.pc = "importSettled"
    /\ TitlePage \in atCancel.files
    /\ Cardinality(AssetFiles(atCancel.files)) >= 1
    /\ Len(assetMap) > Cardinality(AssetFiles(atCancel.files))
    /\ Cardinality(vaultFiles) = Cardinality(AssetFiles(atCancel.files)) + 1

\* the page assets of the book, as positions of the asset map
Pages == {k \in 1..Len(assetMap) : assetMap[k].kind = "page"}

\* the document of a page as the archive holds it
SourceDoc(k) == entries[assetMap[k].entry].doc

\* the hyperlinks of page k that name an element of another page of the
\* book: 'B#id'
CrossLinks(k) ==
    {n \in Anchors(SourceDoc(k)) :
        LET href == SourceDoc(k).el[n].href
        IN  /\ ~href.external
            /\ href.hashed
            /\ href.path # <<>>
            /\ getAsset(assetMap, pathFromBook(assetMap[k], href.path)) \in Pages}

\* the page the cross link n of page k points to
LinkedPage(k, n) == getAsset(assetMap, pathFromBook(assetMap[k], SourceDoc(k).el[n].href.path))

\* whether the page at position b holds an element with the given id
HasElementWithId(b, id) == \E m \in 1..Len(SourceDoc(b).el) : SourceDoc(b).el[m].id = id

\* the block markers of a document
Markers(doc) == {doc.el[m].marker : m \in 1..Len(doc.el)} \ {<<>>}

\* C7: after link reconnection, every hyperlink of a page A whose href was
\* 'B#id', with B a page holding an element with that id, has an href made
\* of the relative output path from A to B followed by '#^g' for an anchor
\* id g, and B's document holds a block marker with the id g.
C7_LinkedElementGetsAnchor ==
    Reconnected =>
        \A k \in Pages : \A n \in CrossLinks(k) :
            LET b == LinkedPage(k, n)
                href == assetMap[k].page.el[n].href
                rel == relativePathTo(assetMap[k], assetMap[b])
            IN  HasElementWithId(b, SourceDoc(k).el[n].href.id) =>
                    /\ href.kind = "output"
                    /\ href.ups = rel.ups
                    /\ href.path = rel.folder
                    /\ href.file = EncodeSpaces(rel.file)
                    /\ href.hashed
                    /\ \E g \in Markers(assetMap[b].page) : href.id = EncodeSpaces(g)

\* C8: after link reconnection, a hyperlink 'other.html#missingId' to a
\* page that holds no element with the id missingId is rewritten to the
\* output path of that page without a '#^' suffix, and the id gets no
\* entry in the anchor registry of that page (no marker was made for it).
C8_MissingIdGetsNoAnchor ==
    Reconnected =>
        \A k \in Pages : \A n \in CrossLinks(k) :
            LET b == LinkedPage(k, n)
                href == assetMap[k].page.el[n].href
                rel == relativePathTo(assetMap[k], assetMap[b])
            IN  ~HasElementWithId(b, SourceDoc(k).el[n].href.id) =>
                    /\ href.kind = "output"
                    /\ href.file = EncodeSpaces(rel.file)
                    /\ ~href.hashed
                    /\ SourceDoc(k).el[n].href.id \notin DOMAIN assetMap[b].linkTargetMap

\* the block element a source id of page k resolves to
BlockOf(k, id) ==
    MarkTarget(assetMap[k].page, QuerySelectorId(assetMap[k].page, id)).target

\* C9: within a page two distinct source ids are mapped to the same anchor
\* id only if both resolve to the same block element.
C9_SharedAnchorSameBlock ==
    \A k \in Pages :
        \A s1, s2 \in DOMAIN assetMap[k].linkTargetMap :
            (s1 # s2 /\ assetMap[k].linkTargetMap[s1] = assetMap[k].linkTargetMap[s2])
                => BlockOf(k, s1) = BlockOf(k, s2)

\* C10: no two assets are written to the same output path: the output path
\* asset.import is called for has not been the target of the import of an
\* earlier asset.
C10_OutputPathsDistinct ==
    pc = "import" =>
        \A k \in 1..(next - 1) : outputPath(assetMap[k]) # outputPath(assetMap[next])

\* C11: over any sequence of registerFilename calls on one book, a call
\* returns true exactly when its filename was not the argument of an
\* earlier call, and false otherwise; a call that returns false leaves the
\* registry as it was; and the registry never loses a name: every name it
\* held before a call it holds afterwards, up to the present.
C11_RegisterFilename ==
    \A i \in 1..Len(registrations) :
        LET call == registrations[i]
            earlier == {registrations[j].filename : j \in 1..(i - 1)}
        IN  /\ call.returned = (call.filename \notin earlier)
            /\ ~call.returned => call.after = call.before
            /\ call.before \subseteq call.after
            /\ call.after \subseteq filenameRegistry
            /\ call.filename \in call.after

\* a name was registered, another one after it, and the first one was
\* passed again and rejected
C11_Witness ==
    /\ Len(registrations) >= 3
    /\ \E i, j, k \in 1..Len(registrations) :
          /\ i < j /\ j < k
          /\ registrations[i].returned
          /\ registrations[j].returned
          /\ registrations[k].filename = registrations[i].filename
          /\ ~registrations[k].returned

\* C12: titleToBasename is idempotent: for every title over the characters
\* the table replaces, the characters it puts in their place and
\* whitespace, titleToBasename applied to the result of titleToBasename
\* gives that result again.
C12_BasenameIdempotent ==
    Len(titles) = 3 => titles[3] = titles[2]

\* titleToBasename has been applied twice to a title that a replacement
\* whose substitute is replaced by a later row, and the trimming, changed
C12_Witness ==
    /\ Len(titles) = 3
    /\ titles[1] = <<"\\", " ">>
    /\ titles[2] = <<"U+2571">>

\* the positions of the trace at which the given operation was started on
\* the given entry
Started(op, entry) == {i \in 1..Len(trace) : trace[i].op = op /\ trace[i].entry = entry}

\* the import is still classifying, parsing or reconnecting
BeforeWritePhase == pc \in {"start", "parseManifest", "classify", "exists", "createFolder"}

\* C13: in any run asset.import is invoked at most once for each asset of
\* the asset map, and exactly once for each when the import completes
\* normally; every asset file of the output folder comes from such an
\* invocation; and while the import classifies, parses and reconnects no
\* import has been invoked and no file has been written.
C13_ImportedOnce ==
    /\ \A k \in 1..Len(assetMap) :
          /\ Cardinality(Started("import", assetMap[k].entry)) <= 1
          /\ NormalCompletion => Cardinality(Started("import", assetMap[k].entry)) = 1
    /\ \A i \in 1..Len(trace) :
          trace[i].op = "import" => \E k \in 1..Len(assetMap) : assetMap[k].entry = trace[i].entry
    /\ \/ vaultFiles \subseteq {OldFile}
       \/ vaultFiles \ {OldFile, TitlePage} \subseteq
              {outputPath(assetMap[k]) :
                  k \in {j \in 1..Len(assetMap) : Started("import", assetMap[j].entry) # {}}}
    /\ BeforeWritePhase =>
          /\ vaultFiles \subseteq {OldFile}
          /\ \A i \in 1..Len(trace) : ~IsWrite(trace[i])

\* a normal completion of a book of two assets, the import of the first of
\* which was rejected
C13_Witness ==
    /\ NormalCompletion
    /\ Len(assetMap) >= 2
    /\ assetMap[1].entry \in rejected
    /\ Cardinality(vaultFiles) = 2

\* the import has ended: it has returned, or an exception has ended it
Ended == pc \in {"done", "crashed"}

\* C14: EpubBook.import returns true for a successful import and false
\* otherwise: an import that completes normally returns true, and the
\* import returns false when the archive holds no manifest, when the
\* output folder already exists, and when it was cancelled before every
\* entry was processed.
C14_ImportResult ==
    /\ NormalCompletion => result = TRUE
    /\ (Ended /\ FindManifest(entries, 1) = 0) => (pc = "done" /\ result = FALSE)
    /\ (pc = "done" /\ bookFolder = "existing") => result = FALSE
    /\ (pc = "done" /\ cancelled /\ Len(ProgressCalls) < Len(entries) + 1) =>
          result = FALSE

\* whether an ancestor of the node n is a pre element
RECURSIVE InsidePre(_, _)
InsidePre(doc, n) ==
    /\ doc.el[n].parent \notin {NoNode, Body}
    /\ \/ doc.el[doc.el[n].parent].tag = "pre"
       \/ InsidePre(doc, doc.el[n].parent)

\* C15: after injectCodeBlock has run on an element, every pre element
\* below it has a code element as its first element child, whatever the pre
\* held: nothing, only text, leading whitespace-only text nodes, a first
\* element that is not code, or another pre.
C15_PreStartsWithCode ==
    transformed =>
        \A n \in 1..Len(body.el) :
            body.el[n].tag = "pre" =>
                /\ FirstElementChild(body, n) # NoNode
                /\ body.el[FirstElementChild(body, n)].tag = "code"

\* the transformation has run on a pre that began with a whitespace-only
\* text node, which is gone, and held another pre, which has its own code
\* element now
C15_Witness ==
    /\ transformed
    /\ \E n \in 1..Len(body.el) : IsText(body, n) /\ body.el[n].parent = NoNode
    /\ \E n \in 1..Len(body.el) :
          /\ body.el[n].tag = "pre"
          /\ InsidePre(body, n)
          /\ body.el[FirstElementChild(body, n)].tag = "code"

\* every asset of the asset map has been handed to the write loop and
\* every entry and the landing page have been counted as processed
AllProcessed ==
    /\ \A k \in 1..Len(assetMap) : Started("import", assetMap[k].entry) # {}
    /\ Len(ProgressCalls) = Len(entries) + 1

\* the operations that work on a single asset
PerAssetOps == {"parsePage", "parseToc", "reconnect", "import"}

\* C16: a failure of an operation on a single asset (reading or parsing a
\* page or the table of contents during classification, reconnecting the
\* links of a page, writing an asset) is confined to that asset: no such
\* operation is the one an exception ends the import at, and an import
\* that returns, with the output folder newly made and nobody cancelling,
\* has handed every asset to the write loop and processed every entry.
C16_PerAssetFailureConfined ==
    /\ pc = "crashed" =>
          (trace = <<>> \/ trace[Len(trace)].op \notin PerAssetOps)
    /\ (pc = "done" /\ ~cancelled /\ bookFolder # "existing") => AllProcessed

\* the writes started since the cancellation flag was set
LateWrites ==
    LET writes == SelectSeq(trace, IsWrite)
    IN  SubSeq(writes, atCancel.writes + 1, Len(writes))

\* the positions of the log of the reports of the given types issued since
\* the cancellation flag was set
LateReports(types) == {j \in ReportsOf(types) : j > atCancel.log}

\* the entries the assets of the asset map were made from
AssetEntries == {assetMap[k].entry : k \in 1..Len(assetMap)}

StartedBefore(op, entry, i) == \E j \in Started(op, entry) : j < i

\* C18: in every run the phases are strictly ordered: TocAsset.parse is
\* started only after every page of the archive has been parsed and added
\* to the asset map; reconnectLinks is started on a page only after that,
\* and after the table of contents of the book has been parsed; and
\* asset.import is started only after reconnectLinks has been started on
\* every page.
C18_PhasesOrdered ==
    \A i \in 1..Len(trace) :
        /\ trace[i].op \in {"parseToc", "reconnect"} =>
              \A e \in 1..Len(entries) :
                  IsPage(entries[e]) =>
                      StartedBefore("parsePage", e, i) /\ e \in AssetEntries
        /\ trace[i].op = "reconnect" =>
              \A k \in 1..Len(assetMap) :
                  assetMap[k].kind = "toc" =>
                      StartedBefore("parseToc", assetMap[k].entry, i)
        /\ trace[i].op = "import" =>
              \A k \in Pages : StartedBefore("reconnect", assetMap[k].entry, i)

\* the archive holds the table of contents before a page; the table of
\* contents was parsed after the page, the page reconnected after that,
\* and the write loop has started
C18_Witness ==
    /\ \E k \in 1..Len(assetMap) :
          /\ assetMap[k].kind = "toc"
          /\ \E p \in Pages :
                /\ k < p
                /\ \E i \in Started("parsePage", assetMap[p].entry) :
                      \E j \in Started("parseToc", assetMap[k].entry) : i < j
    /\ \E i \in 1..Len(trace) : trace[i].op = "import"

\* the asset the hyperlink n of page k resolves to through the asset
\* lookup: a position of the asset map, 0 when there is none
Resolved(k, n) ==
    IF SourceDoc(k).el[n].href.path = <<>> THEN k
    ELSE getAsset(assetMap, pathFromBook(assetMap[k], SourceDoc(k).el[n].href.path))

\* C19: reconnectLinks leaves the href and the text of a hyperlink as they
\* were whenever the href is external or its path does not resolve to a
\* page asset (no asset, or a media or NCX asset); such a link ends
\* neither the reconnection of the page nor the import, and the links of
\* the page that do resolve to a page are rewritten all the same.
C19_UnresolvedLinkUntouched ==
    Reconnected =>
        \A k \in Pages : \A n \in Anchors(SourceDoc(k)) :
            IF SourceDoc(k).el[n].href.external \/ Resolved(k, n) \notin Pages
            THEN /\ assetMap[k].page.el[n].href = SourceDoc(k).el[n].href
                 /\ assetMap[k].page.el[n].text = SourceDoc(k).el[n].text
            ELSE assetMap[k].page.el[n].href.kind = "output"

\* the links of a page have been reconnected: one is external, one names
\* no asset of the book, one names a media asset of the book, and one that
\* comes after them names a page and has been rewritten
C19_Witness ==
    /\ Reconnected
    /\ \E k \in Pages :
          \E x, d, m, p \in Anchors(SourceDoc(k)) :
              /\ SourceDoc(k).el[x].href.external
              /\ ~SourceDoc(k).el[d].href.external /\ Resolved(k, d) = 0
              /\ Resolved(k, m) # 0 /\ assetMap[Resolved(k, m)].kind = "media"
              /\ SourceDoc(k).el[m].text # <<>>
              /\ x < p /\ d < p /\ m < p
              /\ assetMap[k].page.el[p].href.kind = "output"

\* the markers of a document that carry the anchor id g
MarkersWith(doc, g) == {m \in 1..Len(doc.el) : doc.el[m].marker = g}

\* a request for a source id the page has registered gives the registered
\* anchor id and leaves the page, its document and its registry alone
RequestIsStable(asset, id) ==
    \A random \in RandomPool :
        fragmentIdentifier(asset, id, random, drawn)
            = [asset |-> asset, frag |-> asset.linkTargetMap[id], drawn |-> drawn]

\* C20: the anchor registry of a page is stable: once a source id is
\* mapped to an anchor id, a request for that source id, from the table of
\* contents or from the link reconnection of any page, returns that anchor
\* id and adds no marker to the document, and in every step of the import
\* the entry stays in the registry of the page with the same anchor id.
C20_AnchorRegistryStable ==
    [][\A k \in Pages :
          \A id \in DOMAIN assetMap[k].linkTargetMap :
              /\ RequestIsStable(assetMap[k], id)
              /\ MarkersWith(assetMap[k].page, assetMap[k].linkTargetMap[id]) # {}
              /\ Len(assetMap') >= k
              /\ assetMap'[k].key = assetMap[k].key
              /\ id \in DOMAIN assetMap'[k].linkTargetMap
              /\ assetMap'[k].linkTargetMap[id] = assetMap[k].linkTargetMap[id]
              /\ MarkersWith(assetMap[k].page, assetMap[k].linkTargetMap[id])
                    \subseteq MarkersWith(assetMap'[k].page, assetMap[k].linkTargetMap[id])]_vars

\* the table of contents asked a page for the anchor of a heading, the
\* link reconnection of the page asked for it again and got the same
\* anchor id, and the page holds one marker for it
C20_Witness ==
    /\ Reconnected
    /\ toc # 0
    /\ \E k \in Pages :
          /\ IdS2 \in DOMAIN assetMap[k].linkTargetMap
          /\ \E i \in 1..Len(assetMap[toc].navList) :
                /\ assetMap[toc].navList[i].target = "page"
                /\ assetMap[toc].navList[i].frag = assetMap[k].linkTargetMap[IdS2]
          /\ \E n \in Anchors(SourceDoc(k)) :
                /\ SourceDoc(k).el[n].href.path = <<>>
                /\ SourceDoc(k).el[n].href.id = IdS2
                /\ assetMap[k].page.el[n].href.kind = "output"
                /\ assetMap[k].page.el[n].href.id = EncodeSpaces(assetMap[k].linkTargetMap[IdS2])
          /\ Cardinality(MarkersWith(assetMap[k].page, assetMap[k].linkTargetMap[IdS2])) = 1

\* ------------------------------------------------------------------------
\* Titles and table of contents
\* ------------------------------------------------------------------------

\* addAssets has returned and has parsed the NCX file
TocParsed == pc = "exists" /\ toc # 0 /\ assetMap[toc].kind = "toc"

\* the nodes of a navigation tree that NavLink is constructed for, in
\* document order: the nodes given, each followed by the navPoints below it
RECURSIVE PreOrder(_)
PreOrder(nodes) ==
    IF nodes = <<>> THEN <<>>
    ELSE <<Head(nodes)>> \o PreOrder(SelectSeq(Head(nodes).children, IsNavPoint))
                        \o PreOrder(Tail(nodes))

\* the navMap of the book's NCX file
NavMapOfBook == entries[assetMap[toc].entry].navMap

\* the label of the first node that references the page and has a label,
\* "" when there is none
FirstLabel(nodes, key) ==
    LET I == {i \in 1..Len(nodes) :
                 nodes[i].src /\ nodes[i].path = key /\ nodes[i].label # <<>>}
    IN  IF I = {} THEN <<>> ELSE nodes[CHOOSE i \in I : \A j \in I : i <= j].label

markdownListItem(link) ==
    [i \in 1..(link.level * 2) |-> " "]
        \o <<"- [[">> \o link.folder \o link.file \o link.frag \o <<"|">>
        \o link.linkText \o <<"]]">>

\* the number of spaces a list item starts with
RECURSIVE LeadingSpaces(_)
LeadingSpaces(item) ==
    IF item # <<>> /\ Head(item) = " " THEN 1 + LeadingSpaces(Tail(item)) ELSE 0

\* the nodes of a navigation tree in pre-order with their depth: each node
\* at the level given, the navPoints below it one level deeper
RECURSIVE Flatten(_, _)
Flatten(nodes, level) ==
    IF nodes = <<>> THEN <<>>
    ELSE <<[node |-> Head(nodes), level |-> level]>>
             \o Flatten(SelectSeq(Head(nodes).children, IsNavPoint), level + 1)
             \o Flatten(Tail(nodes), level)

\* the navigation list is the flattening of the nodes given: one entry for
\* each, in pre-order, with its depth, its link text and its padding
IsFlatteningOf(navList, nodes) ==
    /\ Len(navList) = Len(Flatten(nodes, 0))
    /\ \A i \in 1..Len(navList) :
          /\ navList[i].level = Flatten(nodes, 0)[i].level
          /\ navList[i].linkText = LinkText(Flatten(nodes, 0)[i].node)
          /\ LeadingSpaces(markdownListItem(navList[i])) = 2 * navList[i].level

\* C22: once TocAsset.parse has run, the navigation list holds exactly one
\* entry for each navPoint of the navigation tree and none for any other
\* element, in pre-order, top-level entries at level 0 and children one
\* level below their parent, each rendered with level * 2 leading spaces.
C22_OneEntryPerNavPoint ==
    TocParsed =>
        IsFlatteningOf(assetMap[toc].navList, SelectSeq(NavMapOfBook, IsNavPoint))

\* ------------------------------------------------------------------------
\* The metadata of the book
\* ------------------------------------------------------------------------

\* whether the sequence s starts with the sequence t
IsPrefix(t, s) == Len(t) <= Len(s) /\ SubSeq(s, 1, Len(t)) = t

\* the values of the children of <metadata> with the key, in document
\* order, as far as the constructor has read them
RECURSIVE ValuesRead(_, _, _)
ValuesRead(children, upTo, key) ==
    IF upTo = 0 THEN <<>>
    ELSE ValuesRead(children, upTo - 1, key)
             \o (IF children[upTo].key = key /\ children[upTo].value # <<>>
                 THEN <<children[upTo].value>> ELSE <<>>)

\* the children of <metadata> the constructor has read
ChildrenRead == IF metaPc.at = "metadata" THEN metaPc.i - 1 ELSE Len(package.metadata)

\* the properties that setProperty is called for
SetProperties == {"cover", "toc", "cover-image"}

Classified(e) == meta.defined /\ e < next

\* the manifest file of the archive, the folder it lies in, and the
\* media-type its manifest gives the entry e ("?" when it lists none)
ManifestEntry == entries[FindManifest(entries, 1)]
BookRoot == Parent(ManifestEntry.filepath)
PathInBook(e) == SubSeq(entries[e].filepath, Len(BookRoot) + 1, Len(entries[e].filepath))
MediaType(e) ==
    IF \E item \in ManifestEntry.manifest.items : item[1] = PathInBook(e)
    THEN (CHOOSE item \in ManifestEntry.manifest.items : item[1] = PathInBook(e))[2]
    ELSE "?"

\* what the manifest says about entry e
Outside(e) == ~StartsWith(entries[e].filepath, BookRoot)
Unlisted(e) == ~Outside(e) /\ MediaType(e) = "?"
Stylesheet(e) == ~Outside(e) /\ MediaType(e) = "text/css"

\* the calls of the given types on the report sink made for entry e
ReportsFor(e, types) == {i \in 1..Len(log) : log[i].entry = e /\ log[i].type \in types}

\* entry e was counted once, never reported as failed and made no asset
CountedAndDropped(e) ==
    /\ Cardinality(ReportsFor(e, {"progress"})) = 1
    /\ ReportsFor(e, {"failed"}) = {}
    /\ \A k \in 1..Len(assetMap) : assetMap[k].entry # e

\* C24 as stated: a classified entry that is a stylesheet, is not listed in
\* the manifest or lies outside the book's root prefix has been reported as
\* skipped exactly once, never as failed, is no asset and has advanced the
\* progress by one.
C24_SkippedReportedOnce ==
    \A e \in 1..Len(entries) :
        (Classified(e) /\ (Stylesheet(e) \/ Unlisted(e) \/ Outside(e))) =>
            /\ Cardinality(ReportsFor(e, {"skipped"})) = 1
            /\ CountedAndDropped(e)

\* C24 amended: a classified entry that lies outside the book's root prefix
\* or is not listed in the manifest has been reported as skipped exactly
\* once, except the manifest file itself (extension opf), for which nothing
\* is reported; a stylesheet is dropped without any report; each of these
\* entries has advanced the progress by exactly one, is never reported as
\* failed and is no asset.
C24_SkippedOrSilentlyDropped ==
    \A e \in 1..Len(entries) :
        (Classified(e) /\ (Stylesheet(e) \/ Unlisted(e) \/ Outside(e))) =>
            /\ Cardinality(ReportsFor(e, {"skipped"})) =
                   (IF Outside(e) \/ (Unlisted(e) /\ entries[e].extension # ".opf")
                    THEN 1 ELSE 0)
            /\ ReportsFor(e, {"skipped", "failed", "note", "attachment", "progress"})
                   \subseteq ReportsFor(e, {"skipped", "progress"})
            /\ CountedAndDropped(e)

\* a book whose manifest, stylesheet and unlisted file have been classified
C24_Witness ==
    /\ pc = "exists"
    /\ \E e \in 1..Len(entries) : Stylesheet(e) /\ ReportsFor(e, {"skipped"}) = {}
    /\ \E e \in 1..Len(entries) :
          /\ Unlisted(e)
          /\ entries[e].extension # ".opf"
          /\ Cardinality(ReportsFor(e, {"skipped"})) = 1
    /\ \E e \in 1..Len(entries) : entries[e].extension = ".opf" /\ Unlisted(e)

\* ------------------------------------------------------------------------
\* Link-target markers
\* ------------------------------------------------------------------------

\* the marker elements of a document
MarkerElements(doc) == {n \in 1..Len(doc.el) : doc.el[n].marker # <<>>}

\* the call added a marker element to the document
Inserted(request) == request.after # request.before

\* C25: after any sequence of requests every block carries at most one
\* marker: at most one request has inserted a marker for a block, a later
\* request that resolves to that block returns the id of that marker and
\* inserts nothing, whatever the strategy, the document holds one marker
\* element for each inserting request, and no marker follows another.
C25_OneMarkerPerBlock ==
    /\ \A i \in 1..Len(requests) :
          /\ Inserted(requests[i]) =>
                /\ requests[i].target # NoNode
                /\ MarkerElements(requests[i].after)
                       = MarkerElements(requests[i].before) \cup {Len(requests[i].after.el)}
                /\ requests[i].after.el[Len(requests[i].after.el)].marker = requests[i].id
          /\ \A j \in (i + 1)..Len(requests) :
                (Inserted(requests[i]) /\ requests[j].target = requests[i].target) =>
                    /\ ~Inserted(requests[j])
                    /\ requests[j].id = requests[i].id
    /\ Cardinality(MarkerElements(markDoc))
           = Cardinality({i \in 1..Len(requests) : Inserted(requests[i])})
    /\ \A m \in MarkerElements(markDoc) :
          MarkerOf(markDoc, NextElementSibling(markDoc, m)) = <<>>

\* four requests on one document: the list item is marked and then found
\* again by descending from the section, a marker is inserted after the
\* div that has nothing markable below it and is found again by the next
\* request that ends at the div
C25_Witness ==
    /\ Len(requests) = 4
    /\ requests[1].strategy = "Append" /\ Inserted(requests[1])
    /\ Tag(markDoc, requests[2].element) = "section"
    /\ requests[2].target = requests[1].target /\ ~Inserted(requests[2])
    /\ requests[3].strategy = "InsertAfter" /\ Tag(markDoc, requests[3].element) = "div"
    /\ Inserted(requests[3])
    /\ requests[4].target = requests[3].target /\ ~Inserted(requests[4])
    /\ requests[4].id = requests[3].id

\* C26: every anchor id markElementAsLinkTarget returns is a letter
\* followed by word characters, '-' or '.' only: the sanitized id of the
\* element when that has this form, otherwise a generated id, which has
\* this form too.
C26_AnchorIdsValid ==
    \A i \in 1..Len(requests) :
        requests[i].id # <<>> =>
            /\ IsValidAnchorId(requests[i].id)
            /\ (Inserted(requests[i])
                    /\ IsValidAnchorId(SanitizeId(markDoc.el[requests[i].element].id)))
                  => requests[i].id = SanitizeId(markDoc.el[requests[i].element].id)

\* ------------------------------------------------------------------------
\* The asset map after classification
\* ------------------------------------------------------------------------

\* addAssets has gone over every entry of an archive with a manifest
AllClassified == meta.defined /\ LoopOverEntriesDone /\ pc \in {"classify", "exists"}

\* the assets made from entry e
AssetsOf(e) == {k \in 1..Len(assetMap) : assetMap[k].entry = e}

\* C27: after the classification of an archive with a manifest every entry
\* is either held in the asset map, as exactly one page, table of contents
\* or media asset and with no progress reported for it, or it is no asset
\* and has been counted by exactly one progress report; the size of the
\* asset map plus the processed counter is the number of entries.
C27_EveryEntryAccountedOnce ==
    AllClassified =>
        /\ \A e \in 1..Len(entries) :
              \/ /\ Cardinality(AssetsOf(e)) = 1
                 /\ \A k \in AssetsOf(e) : assetMap[k].kind \in {"page", "toc", "media"}
                 /\ ReportsFor(e, {"progress"}) = {}
              \/ /\ AssetsOf(e) = {}
                 /\ Cardinality(ReportsFor(e, {"progress"})) = 1
        /\ Len(assetMap) + processed = Len(entries)
        /\ processed = Cardinality(ReportsOf({"progress"}))

\* a classified archive with two assets and a counted entry besides the
\* manifest
C27_Witness ==
    /\ AllClassified
    /\ Len(entries) = 3
    /\ Len(assetMap) = 2
    /\ processed = 1
    /\ \E k \in 1..Len(assetMap) : assetMap[k].kind = "media"

\* the entries the manifest lists as NCX file, and the entry it names as
\* the navigation page
NcxEntries == {e \in 1..Len(entries) : ~Outside(e) /\ MediaType(e) = "application/x-dtbncx+xml"}
NavEntries ==
    {e \in 1..Len(entries) :
        /\ ~Outside(e)
        /\ MediaType(e) \in {"text/html", "application/xhtml+xml"}
        /\ PathInBook(e) = ManifestEntry.manifest.toc}

\* C28: when the archive holds an NCX file and a navigation page, the
\* table of contents of the book after classification is the TocAsset of
\* the NCX file, whichever of the two comes first in the archive, and
\* both entries are in the asset map.
C28_NcxWinsOverNavPage ==
    (AllClassified /\ NcxEntries # {} /\ NavEntries # {}) =>
        /\ toc # 0
        /\ assetMap[toc].kind = "toc"
        /\ assetMap[toc].entry \in NcxEntries
        /\ \A e \in NcxEntries \cup NavEntries : AssetsOf(e) # {}
        /\ \A e \in NavEntries : \A k \in AssetsOf(e) : assetMap[k].kind = "page" /\ assetMap[k].toc

\* the NCX file comes before the navigation page in the archive
C28_Witness ==
    /\ AllClassified
    /\ \E e \in NcxEntries : \E n \in NavEntries : e < n
    /\ toc # 0
    /\ assetMap[toc].kind = "toc"

\* the navigation page comes before the NCX file in the archive
C28_WitnessNavFirst ==
    /\ AllClassified
    /\ \E e \in NcxEntries : \E n \in NavEntries : n < e
    /\ toc # 0
    /\ assetMap[toc].kind = "toc"

\* ------------------------------------------------------------------------
\* Relative paths
\* ------------------------------------------------------------------------

\* the segments of the string relativePathTo returns: "../" ups times,
\* then the folders and the file name, which "/" separates
Segments(rel) == [i \in 1..rel.ups |-> "../"] \o rel.folder \o <<rel.file>>

\* where the segments lead from a folder: "../" removes the last folder,
\* any other segment descends
RECURSIVE Resolve(_, _)
Resolve(folder, segments) ==
    IF segments = <<>> THEN folder
    ELSE IF Head(segments) = "../"
    THEN IF folder = <<>> THEN <<"above the book">>
         ELSE Resolve(SubSeq(folder, 1, Len(folder) - 1), Tail(segments))
    ELSE Resolve(Append(folder, Head(segments)), Tail(segments))

\* the length of the longest common prefix of two folder paths
LongestCommonPrefix(S, T) ==
    CHOOSE n \in 0..Len(S) :
        /\ n <= Len(T)
        /\ SubSeq(S, 1, n) = SubSeq(T, 1, n)
        /\ \A m \in (n + 1)..Len(S) : m <= Len(T) => SubSeq(S, 1, m) # SubSeq(T, 1, m)

\* C30: for a source asset in folder S and a target asset in folder T with
\* output filename f, resolving the string relativePathTo returns from S
\* gives T followed by f, and the string has as many "../" segments as S
\* is longer than the longest common prefix of S and T.
C30_RelativePathResolves ==
    \A i \in 1..Len(paths) :
        LET S == paths[i].this.assetFolderPath
            T == paths[i].targetAsset.assetFolderPath
            f == outputFilename(paths[i].targetAsset)
        IN  /\ Resolve(S, Segments(paths[i].rel)) = Append(T, f)
            /\ paths[i].rel.ups = Len(S) - LongestCommonPrefix(S, T)
            /\ \A k \in 1..Len(Segments(paths[i].rel)) :
                  Segments(paths[i].rel)[k] = "../" <=> k <= paths[i].rel.ups

\* a path between two folders of depth two that share their first folder
\* only: one step up, one down
C30_Witness ==
    /\ Len(paths) = 1
    /\ Len(paths[1].this.assetFolderPath) = 2
    /\ Len(paths[1].targetAsset.assetFolderPath) = 2
    /\ paths[1].rel.ups = 1
    /\ Len(paths[1].rel.folder) = 1
    /\ paths[1].targetAsset.kind = "page"

\* ------------------------------------------------------------------------
\* Links and the names of the pages they lead to
\* ------------------------------------------------------------------------

\* the entries of the navigation list that link to a page, each with the
\* position of that page in the asset map
PageLinks ==
    {i \in 1..Len(assetMap[toc].navList) : assetMap[toc].navList[i].target = "page"}
LinkedAsset(i) == getAsset(assetMap, PreOrder(NavMapOfBook)[i].path)

\* C29: a link to a page names the output path the page is written under,
\* because the output filename of a page does not change once a link to it
\* has been computed; stated for the links of the table of contents, the
\* first links the import computes: after the NCX file has been parsed
\* every entry names the folder and the output filename its page has.
C29_LinksNameWrittenPath ==
    TocParsed =>
        \A i \in PageLinks :
            /\ assetMap[toc].navList[i].folder = outputPath(assetMap[LinkedAsset(i)]).folder
            /\ assetMap[toc].navList[i].file = outputPath(assetMap[LinkedAsset(i)]).file

====
